---- MODULE Spec2Model ----
(***************************************************************************)
(* A model of the ingestion and query paths of the financial research      *)
(* service: chunking, embedding, the vector index client, the retriever,   *)
(* the answer synthesizer and the research service built on them.          *)
(*                                                                         *)
(* Python dictionaries are functions whose domain is the set of keys that  *)
(* are present; text is a sequence of one-character strings; identifiers   *)
(* (tickers, content types, sources, record ids) are strings.              *)
(***************************************************************************)
EXTENDS Integers, Sequences, FiniteSets, TLC

(***************************************************************************)
(* Generic helpers for dictionaries and sequences.                         *)
(***************************************************************************)

\* dict.get(key, default)
Get(d, k, default) == IF k \in DOMAIN d THEN d[k] ELSE default

\* dict[key] = value on a copy of d (adds the key when it is missing)
Put(d, k, v) == [x \in (DOMAIN d) \cup {k} |-> IF x = k THEN v ELSE d[x]]

Min(a, b) == IF a < b THEN a ELSE b

Range(s) == {s[i] : i \in DOMAIN s}

\* text[:n]
Prefix(text, n) == SubSeq(text, 1, Min(n, Len(text)))

RECURSIVE Concat(_)
\* the concatenation of a sequence of sequences
Concat(ss) == IF ss = <<>> THEN <<>> ELSE Head(ss) \o Concat(Tail(ss))

\* the model's stand-in for Python's None
None == "None"

(***************************************************************************)
(* Configuration (app/config/settings.py).                                 *)
(***************************************************************************)
CHUNK_SIZE == 1000

CHUNK_OVERLAP == 200

MAX_DOCUMENTS_RETRIEVED == 5

(***************************************************************************)
(* The text splitter the chunker is built on (RecursiveCharacterText-      *)
(* Splitter with keep_separator and strip_whitespace at their defaults,    *)
(* length_function = len, literal separators).                             *)
(***************************************************************************)

\* separators=["\n\n", "\n", ".", "!", "?", ",", " ", ""]
SEPARATORS ==
    << <<"\n", "\n">>, <<"\n">>, <<".">>, <<"!">>, <<"?">>, <<",">>, <<" ">>, <<>> >>

Whitespace == {" ", "\n", "\t"}

\* does sep occur in text at position i
OccursAt(text, sep, i) ==
    /\ i >= 1
    /\ i + Len(sep) - 1 <= Len(text)
    /\ SubSeq(text, i, i + Len(sep) - 1) = sep

\* the first position >= from at which sep occurs in text, 0 when there is none
FirstOcc(text, sep, from) ==
    LET hits == {i \in from..Len(text) : OccursAt(text, sep, i)}
    IN  IF hits = {} THEN 0 ELSE CHOOSE i \in hits : \A j \in hits : i <= j

RECURSIVE SplitRest(_, _)
\* text starts with sep: cut it before every later occurrence of sep
SplitRest(text, sep) ==
    LET j == FirstOcc(text, sep, Len(sep) + 1)
    IN  IF j = 0 THEN <<text>>
        ELSE <<SubSeq(text, 1, j - 1)>> \o SplitRest(SubSeq(text, j, Len(text)), sep)

\* _split_text_with_regex(text, separator, keep_separator=True): the pieces
\* of text, each separator kept at the start of the piece that follows it,
\* empty pieces dropped; the empty separator splits into characters
SplitKeep(text, sep) ==
    IF sep = <<>> THEN [i \in 1..Len(text) |-> <<text[i]>>]
    ELSE LET i == FirstOcc(text, sep, 1)
         IN  IF i = 0 THEN (IF text = <<>> THEN <<>> ELSE <<text>>)
             ELSE (IF i = 1 THEN <<>> ELSE <<SubSeq(text, 1, i - 1)>>)
                  \o SplitRest(SubSeq(text, i, Len(text)), sep)

RECURSIVE LStrip(_)
LStrip(text) ==
    IF text # <<>> /\ Head(text) \in Whitespace THEN LStrip(Tail(text)) ELSE text

RECURSIVE RStrip(_)
RStrip(text) ==
    IF text # <<>> /\ text[Len(text)] \in Whitespace
    THEN RStrip(SubSeq(text, 1, Len(text) - 1)) ELSE text

\* str.strip()
Strip(text) == RStrip(LStrip(text))

\* _join_docs(docs, ""): the joined and stripped text, as a list of zero or
\* one chunk (None when the stripped text is empty)
JoinDocs(current) ==
    LET text == Strip(Concat(current))
    IN  IF text = <<>> THEN <<>> ELSE <<text>>

\* a window that is never shortened
PopNothing(current, total, len, size, overlap) == [current |-> current, total |-> total]

RECURSIVE PopWhile(_, _, _, _, _)
\* the inner while loop of _merge_splits: drop pieces from the front of the
\* current window until it is within the overlap and the next piece fits
PopWhile(current, total, len, size, overlap) ==
    IF total > overlap \/ (total + len > size /\ total > 0)
    THEN PopWhile(Tail(current), total - Len(Head(current)), len, size, overlap)
    ELSE [current |-> current, total |-> total]

RECURSIVE MergeFrom(_, _, _, _, _, _)
\* _merge_splits(splits, ""), from the state (docs, current, total) on
MergeFrom(splits, docs, current, total, size, overlap) ==
    IF splits = <<>> THEN docs \o JoinDocs(current)
    ELSE LET d == Head(splits)
             len == Len(d)
             over == total + len > size
             flush == over /\ current # <<>>
             popped == IF flush THEN PopWhile(current, total, len, size, overlap)
                       ELSE [current |-> current, total |-> total]
         IN  MergeFrom(Tail(splits),
                       IF flush THEN docs \o JoinDocs(current) ELSE docs,
                       Append(popped.current, d),
                       popped.total + len,
                       size, overlap)

MergeSplits(splits, size, overlap) == MergeFrom(splits, <<>>, <<>>, 0, size, overlap)

\* the first separator of seps that occurs in text (the empty separator
\* always does); the last one when none occurs
PickSeparator(text, seps) ==
    LET hits == {i \in 1..Len(seps) : seps[i] = <<>> \/ FirstOcc(text, seps[i], 1) # 0}
    IN  IF hits = {} THEN [sep |-> seps[Len(seps)], rest |-> <<>>]
        ELSE LET i == CHOOSE h \in hits : \A j \in hits : h <= j
             IN  [sep |-> seps[i],
                  rest |-> IF seps[i] = <<>> THEN <<>> ELSE SubSeq(seps, i + 1, Len(seps))]

RECURSIVE SplitText(_, _, _, _)
RECURSIVE SplitPieces(_, _, _, _, _)

\* the loop of _split_text over the pieces: short pieces are collected and
\* merged, a piece that is not shorter than the chunk size is split further
\* with the remaining separators (or kept whole when none remain)
SplitPieces(pieces, good, rest, size, overlap) ==
    IF pieces = <<>>
    THEN (IF good = <<>> THEN <<>> ELSE MergeSplits(good, size, overlap))
    ELSE LET s == Head(pieces)
         IN  IF Len(s) < size
             THEN SplitPieces(Tail(pieces), Append(good, s), rest, size, overlap)
             ELSE (IF good = <<>> THEN <<>> ELSE MergeSplits(good, size, overlap))
                  \o (IF rest = <<>> THEN <<s>> ELSE SplitText(s, rest, size, overlap))
                  \o SplitPieces(Tail(pieces), <<>>, rest, size, overlap)

\* RecursiveCharacterTextSplitter._split_text(text, separators)
SplitText(text, seps, size, overlap) ==
    LET pick == PickSeparator(text, seps)
    IN  SplitPieces(SplitKeep(text, pick.sep), <<>>, pick.rest, size, overlap)

\* text_splitter.split_text(content)
split_text(chunker, content) ==
    SplitText(content, SEPARATORS, chunker.chunk_size, chunker.chunk_overlap)

(***************************************************************************)
(* TextChunker (app/core/document_processing/text_chunker.py).             *)
(* An optional constructor argument is <<>> when omitted, <<n>> when given.*)
(***************************************************************************)

\* `arg or default`: the default replaces an omitted argument and a falsy one
OrDefault(arg, default) == IF arg = <<>> \/ arg[1] = 0 THEN default ELSE arg[1]

\* TextChunker.__init__
TextChunker(chunk_size, chunk_overlap) ==
    [chunk_size |-> OrDefault(chunk_size, CHUNK_SIZE),
     chunk_overlap |-> OrDefault(chunk_overlap, CHUNK_OVERLAP)]

\* the text splitter's constructor rejects an overlap larger than the size
ChunkerValid(chunker) == chunker.chunk_overlap <= chunker.chunk_size

\* a chunk numbered from 1
ChunkDocOneBased(document, chunks, i) ==
    Put(Put(Put(document, "content", chunks[i]), "chunk_id", i),
        "chunk_count", Len(chunks))

\* the chunk made of the i-th piece (1-based here, chunk_id is 0-based)
ChunkDoc(document, chunks, i) ==
    Put(Put(Put(document, "content", chunks[i]), "chunk_id", i - 1),
        "chunk_count", Len(chunks))

\* TextChunker.chunk_document
chunk_document(chunker, document) ==
    LET content == Get(document, "content", <<>>)
    IN  IF content = <<>> THEN <<>>
        ELSE LET chunks == split_text(chunker, content)
             IN  [i \in 1..Len(chunks) |-> ChunkDoc(document, chunks, i)]

RECURSIVE chunk_financial_data(_, _)
\* TextChunker.chunk_financial_data
chunk_financial_data(chunker, documents) ==
    IF documents = <<>> THEN <<>>
    ELSE chunk_document(chunker, Head(documents))
         \o chunk_financial_data(chunker, Tail(documents))

(***************************************************************************)
(* OpenAIEmbeddings (app/core/vector_store/embeddings.py).  The vector of  *)
(* a text is abstracted to a one-element sequence that names the text; the *)
(* empty sequence is the empty vector.                                     *)
(***************************************************************************)

\* the provider's vector for one text
Vec(text) == <<text>>

RECURSIVE SelectValid(_)
\* [text for text in texts if text and isinstance(text, str)]
SelectValid(texts) ==
    IF texts = <<>> THEN <<>>
    ELSE (IF Head(texts) = <<>> THEN <<>> ELSE <<Head(texts)>>) \o SelectValid(Tail(texts))

\* OpenAIEmbeddings.get_embeddings; provider_ok tells whether the provider
\* call succeeds (a failed call raises inside the try block)
get_embeddings(texts, provider_ok) ==
    LET valid_texts == SelectValid(texts)
    IN  IF valid_texts = <<>> THEN <<>>
        ELSE IF ~provider_ok THEN <<>>
        ELSE [i \in 1..Len(valid_texts) |-> Vec(valid_texts[i])]

\* OpenAIEmbeddings.get_embedding
get_embedding(text, provider_ok) ==
    LET embeddings == get_embeddings(<<text>>, provider_ok)
    IN  IF embeddings # <<>> THEN embeddings[1] ELSE <<>>

\* OpenAIEmbeddings.embed_documents: the pair (documents, embeddings)
embed_documents(documents, provider_ok) ==
    LET texts == [i \in 1..Len(documents) |-> Get(documents[i], "content", <<>>)]
    IN  <<documents, get_embeddings(texts, provider_ok)>>

(***************************************************************************)
(* PineconeVectorStore (app/core/vector_store/pinecone_client.py).         *)
(* A nested metadata value is [kind, val] with kind "str", "float", "dict" *)
(* or "list"; val is its rendering.                                        *)
(***************************************************************************)
SNIPPET_CAP == 1000

batch_size == 500

\* json.dumps(v): a string that opens with "{" for a dict, "[" for a list
JsonDumps(v) == [json |-> v.kind, body |-> v.val]

\* the value stored for a nested metadata value
Serialize(v) == IF v.kind \in {"dict", "list"} THEN JsonDumps(v) ELSE v.val

RECURSIVE MergeNested(_, _, _)
\* for k, v in doc["metadata"].items(): metadata[k] = <serialized v>
MergeNested(metadata, nested, keys) ==
    IF keys = {} THEN metadata
    ELSE LET k == CHOOSE x \in keys : TRUE
         IN  MergeNested(Put(metadata, k, Serialize(nested[k])), nested, keys \ {k})

\* the record id of the document at 0-based position i of its list
\* an id that also names the document the chunk comes from
doc_id_with_source(doc, i) ==
    Get(doc, "ticker", "unknown") \o "_" \o Get(doc, "source", "doc")
        \o "_" \o ToString(Get(doc, "chunk_id", i))

doc_id(doc, i) ==
    Get(doc, "ticker", "unknown") \o "_" \o Get(doc, "content_type", "doc")
        \o "_" \o ToString(Get(doc, "chunk_id", i))

\* the metadata of the record of the document at 0-based position i
doc_metadata(doc, i) ==
    LET base == [ticker |-> Get(doc, "ticker", ""),
                 content_type |-> Get(doc, "content_type", "document"),
                 source |-> Get(doc, "source", ""),
                 chunk_id |-> Get(doc, "chunk_id", i),
                 chunk_count |-> Get(doc, "chunk_count", 1)]
        m1 == IF "filing_type" \in DOMAIN doc
              THEN Put(base, "filing_type", doc["filing_type"]) ELSE base
        m2 == IF "filing_date" \in DOMAIN doc
              THEN Put(m1, "filing_date", doc["filing_date"]) ELSE m1
        m3 == IF "metadata" \in DOMAIN doc
              THEN MergeNested(m2, doc["metadata"], DOMAIN doc["metadata"]) ELSE m2
    IN  Put(m3, "text_snippet", Prefix(Get(doc, "content", <<>>), SNIPPET_CAP))

\* the vectors built by the loop over zip(documents, embeddings)
BuildVectors(documents, embeddings) ==
    [n \in 1..Min(Len(documents), Len(embeddings)) |->
        [id |-> doc_id(documents[n], n - 1),
         values |-> embeddings[n],
         metadata |-> doc_metadata(documents[n], n - 1)]]

\* batches that each start with the last vector of the batch before
BatchesOverlapping(vectors) ==
    [b \in 1..((Len(vectors) + batch_size - 1) \div batch_size) |->
        SubSeq(vectors, IF b = 1 THEN 1 ELSE (b - 1) * batch_size,
               Min(b * batch_size, Len(vectors)))]

\* the batches vectors[i:i+batch_size] for i in range(0, len(vectors), batch_size)
Batches(vectors) ==
    [b \in 1..((Len(vectors) + batch_size - 1) \div batch_size) |->
        SubSeq(vectors, (b - 1) * batch_size + 1, Min(b * batch_size, Len(vectors)))]

RECURSIVE BackendInsertNew(_, _)
\* an upsert that leaves a record that exists as it is
BackendInsertNew(idx, batch) ==
    IF batch = <<>> THEN idx
    ELSE BackendInsertNew(IF Head(batch).id \in DOMAIN idx THEN idx
                          ELSE Put(idx, Head(batch).id, Head(batch)), Tail(batch))

\* the backend's upsert of one batch: each vector replaces the record that
\* has its id, in batch order, so that the last vector of an id stays
BackendUpsert(idx, batch) ==
    LET ids == {batch[n].id : n \in 1..Len(batch)}
        LastOf(id) == CHOOSE n \in 1..Len(batch) :
                          /\ batch[n].id = id
                          /\ \A m \in (n + 1)..Len(batch) : batch[m].id # id
    IN  [id \in DOMAIN idx \cup ids |->
            IF id \in ids THEN batch[LastOf(id)] ELSE idx[id]]

RECURSIVE UpsertBatches(_, _, _)
\* the batch loop: the first `sent` batches reach the backend
UpsertBatches(idx, batches, sent) ==
    IF sent = 0 \/ batches = <<>> THEN idx
    ELSE UpsertBatches(BackendUpsert(idx, Head(batches)), Tail(batches), sent - 1)

\* a try block without its handler: the exception leaves the method
Uncaught(raises, value, fallback) == [raised |-> raises, value |-> value]

\* `try: ... return value / except Exception: return fallback`: how a
\* method of the store ends when its try block raises or not
Caught(raises, value, fallback) ==
    [raised |-> FALSE, value |-> IF raises THEN fallback ELSE value]

\* PineconeVectorStore.init_connection: the index object exists afterwards
\* when connecting succeeded; a failure is logged and self.index stays None
init_connection(connect_ok) == Caught(~connect_ok, connect_ok, FALSE).value

\* PineconeVectorStore.upsert_documents.  index_ok: the index object exists;
\* fail_at: 0 when every backend call succeeds, else the number of the batch
\* whose call raises.  The result is the new backend content, the value
\* returned, the number of backend calls made and whether the call raised.
upsert_documents(idx, index_ok, documents, embeddings, fail_at) ==
    IF ~index_ok THEN [index |-> idx, ok |-> FALSE, calls |-> 0, raised |-> FALSE]
    ELSE LET batches == Batches(BuildVectors(documents, embeddings))
             fails == fail_at \in 1..Len(batches)
             end == Caught(fails, TRUE, FALSE)
         IN  IF fails
             THEN [index |-> UpsertBatches(idx, batches, fail_at - 1),
                   ok |-> end.value, calls |-> fail_at, raised |-> end.raised]
             ELSE [index |-> UpsertBatches(idx, batches, Len(batches)),
                   ok |-> end.value, calls |-> Len(batches), raised |-> end.raised]

\* the backend's delete of the records with the given ids
BackendDelete(idx, ids) == [id \in DOMAIN idx \ Range(ids) |-> idx[id]]

(***************************************************************************)
(* The backend's similarity search.  A filter maps a metadata key to a     *)
(* condition [op |-> "eq", v |-> value] or [op |-> "in", v |-> list]; the  *)
(* conditions are ANDed.                                                   *)
(***************************************************************************)
Eq(v) == [op |-> "eq", v |-> v]

In(list) == [op |-> "in", v |-> list]

NoFilter == [k \in {} |-> Eq("")]

FilterMatches(metadata, filter) ==
    \A k \in DOMAIN filter :
        /\ k \in DOMAIN metadata
        /\ IF filter[k].op = "eq" THEN metadata[k] = filter[k].v
           ELSE metadata[k] \in Range(filter[k].v)

\* the letters of a text
Letters(text) == Range(text) \ Whitespace

\* the similarity of two vectors: the number of letters their texts share
Score(u, v) == Cardinality(Letters(u[1]) \cap Letters(v[1]))

RECURSIVE Rankings(_, _, _, _)
\* the ways to list the n best records of ids, best first; records of equal
\* score come in any order
Rankings(idx, vector, ids, n) ==
    IF n = 0 \/ ids = {} THEN {<<>>}
    ELSE LET best == {id \in ids : \A other \in ids :
                         Score(vector, idx[id].values) >= Score(vector, idx[other].values)}
         IN  UNION {{<<id>> \o r : r \in Rankings(idx, vector, ids \ {id}, n - 1)} :
                    id \in best}

\* the rankings the backend may answer a query with: the ids of the top_k
\* most similar records that satisfy the filter
BackendQuery(idx, vector, filter, top_k) ==
    Rankings(idx, vector,
             {id \in DOMAIN idx : FilterMatches(idx[id].metadata, filter)}, top_k)

\* the nested metadata keys whose values are structured (dict or list)
StructuredKeys == {"entities", "financial_periods"}

\* query's decoding of one metadata value: a string that starts with "{"
\* and ends with "}" is replaced by the value json.loads gives for it
DecodeValue(k, v) ==
    IF k \in StructuredKeys /\ v.json = "dict" THEN [kind |-> "dict", val |-> v.body]
    ELSE v

DecodeMetadata(metadata) == [k \in DOMAIN metadata |-> DecodeValue(k, metadata[k])]

\* the ways PineconeVectorStore.query may end.  backend_ok: the backend
\* call succeeds (the backend rejects a top_k below 1)
query_ends(idx, index_ok, query_embedding, filter_dict, top_k, backend_ok) ==
    IF ~index_ok THEN {[raised |-> FALSE, value |-> <<>>]}
    ELSE IF ~backend_ok \/ top_k < 1 THEN {Caught(TRUE, <<>>, <<>>)}
    ELSE {Caught(FALSE,
                 [i \in 1..Len(r) |->
                     [id |-> r[i],
                      score |-> Score(query_embedding, idx[r[i]].values),
                      metadata |-> DecodeMetadata(idx[r[i]].metadata)]],
                 <<>>) :
          r \in BackendQuery(idx, query_embedding, filter_dict, top_k)}

\* PineconeVectorStore.query: the possible results
query(idx, index_ok, query_embedding, filter_dict, top_k, backend_ok) ==
    {end.value : end \in query_ends(idx, index_ok, query_embedding, filter_dict,
                                     top_k, backend_ok)}

\* the backend's delete of the records that satisfy a filter
BackendDeleteFilter(idx, filter) ==
    [id \in {i \in DOMAIN idx : ~FilterMatches(idx[i].metadata, filter)} |-> idx[id]]

\* PineconeVectorStore.delete_documents: the new backend content, the value
\* returned and whether the call raised
delete_documents(idx, index_ok, ids, backend_ok) ==
    IF ~index_ok THEN [index |-> idx, ok |-> FALSE, raised |-> FALSE]
    ELSE LET end == Caught(~backend_ok, TRUE, FALSE)
         IN  [index |-> IF backend_ok THEN BackendDelete(idx, ids) ELSE idx,
              ok |-> end.value, raised |-> end.raised]

\* PineconeVectorStore.delete_by_filter
delete_by_filter(idx, index_ok, filter_dict, backend_ok) ==
    IF ~index_ok THEN [index |-> idx, ok |-> FALSE, raised |-> FALSE]
    ELSE LET end == Caught(~backend_ok, TRUE, FALSE)
         IN  [index |-> IF backend_ok THEN BackendDeleteFilter(idx, filter_dict) ELSE idx,
              ok |-> end.value, raised |-> end.raised]

(***************************************************************************)
(* DocumentRetriever (app/core/rag/retriever.py).  An optional top_k is    *)
(* <<>> when omitted, <<n>> when given.                                    *)
(***************************************************************************)

\* the document the retriever makes of one query result
RetrievedDoc(result) ==
    [id |-> result.id,
     content |-> Get(result.metadata, "text_snippet", <<>>),
     score |-> result.score,
     metadata |-> result.metadata]

\* a top_k that ignores the caller's value
DefaultTopK(top_k) == MAX_DOCUMENTS_RETRIEVED

\* the top_k handed to the vector store
EffectiveTopK(top_k) == IF top_k = <<>> THEN MAX_DOCUMENTS_RETRIEVED ELSE top_k[1]

\* a guard that takes every embedding for a good one
EmbeddingNeverEmpty(query_embedding) == FALSE

\* `if not query_embedding:`
EmbeddingEmpty(query_embedding) == query_embedding = <<>>

\* the ways DocumentRetriever.retrieve_documents may end: the documents
\* returned, the number of queries made to the vector store and whether
\* the call raised (neither collaborator raises; the handler returns [])
retrieve_ends(idx, index_ok, text, filters, top_k, provider_ok, backend_ok) ==
    LET query_embedding == get_embedding(text, provider_ok)
    IN  IF EmbeddingEmpty(query_embedding)
        THEN {[documents |-> <<>>, store_queries |-> 0, raised |-> FALSE]}
        ELSE {[documents |-> Caught(FALSE,
                                    [i \in 1..Len(results) |-> RetrievedDoc(results[i])],
                                    <<>>).value,
               store_queries |-> 1,
               raised |-> FALSE] :
              results \in query(idx, index_ok, query_embedding, filters,
                                EffectiveTopK(top_k), backend_ok)}

\* DocumentRetriever.retrieve_documents: the possible results
retrieve_documents(idx, index_ok, text, filters, top_k, provider_ok, backend_ok) ==
    {end.documents : end \in retrieve_ends(idx, index_ok, text, filters, top_k,
                                            provider_ok, backend_ok)}

\* the filter built by retrieve_by_ticker
TickerFilter(ticker, content_types) ==
    IF content_types # <<>>
    THEN [k \in {"ticker", "content_type"} |->
             IF k = "ticker" THEN Eq(ticker) ELSE In(content_types)]
    ELSE [k \in {"ticker"} |-> Eq(ticker)]

\* DocumentRetriever.retrieve_by_ticker
retrieve_by_ticker(idx, index_ok, text, ticker, content_types, top_k, provider_ok, backend_ok) ==
    retrieve_documents(idx, index_ok, text, TickerFilter(ticker, content_types),
                       top_k, provider_ok, backend_ok)

(***************************************************************************)
(* RAGQueryEngine (app/core/rag/query_engine.py).  An omitted ticker is    *)
(* None, an omitted content_types list is <<>>.                            *)
(***************************************************************************)
NOT_FOUND_ANSWER ==
    "I couldn't find relevant information to answer your question. Please try a different question or provide more specific details."

ERROR_ANSWER ==
    "I encountered an error while processing your question. Please try again."

\* the text the language model answers with
LLM_ANSWER == "llm answer"

\* a citation that looks for the source on the retrieved document itself
SourceOfDocument(doc) ==
    [type |-> Get(doc.metadata, "content_type", "document"),
     source |-> Get(doc, "source", "Unknown")]

\* the citation built from one retrieved document
SourceOf(doc) ==
    LET metadata == doc.metadata
        base == [type |-> Get(metadata, "content_type", "document"),
                 source |-> Get(metadata, "source", "Unknown")]
        s1 == IF "filing_type" \in DOMAIN metadata
              THEN Put(base, "filing_type", metadata["filing_type"]) ELSE base
    IN  IF "filing_date" \in DOMAIN metadata
        THEN Put(s1, "filing_date", metadata["filing_date"]) ELSE s1

\* a duplicate removal that keeps every citation
all_sources_kept(all_sources, source_urls) == all_sources

RECURSIVE unique_sources(_, _)
\* the duplicate removal of generate_research_report: a citation is kept
\* when no earlier citation of the list has its source value
unique_sources(all_sources, source_urls) ==
    IF all_sources = <<>> THEN <<>>
    ELSE LET source == Head(all_sources)
             source_key == Get(source, "source", "")
         IN  IF source_key \notin source_urls
             THEN <<source>> \o unique_sources(Tail(all_sources), source_urls \cup {source_key})
             ELSE unique_sources(Tail(all_sources), source_urls)

\* citations with the duplicate sources removed
ExtractUniqueSources(documents) ==
    unique_sources([i \in 1..Len(documents) |-> SourceOf(documents[i])], {})

\* the citations of the retrieved documents, in retrieval order
ExtractSources(documents) == [i \in 1..Len(documents) |-> SourceOf(documents[i])]

\* an answer that asks the language model whatever was retrieved
AnswerAlways(documents, llm_ok) ==
    IF ~llm_ok
    THEN [answer |-> ERROR_ANSWER, sources |-> <<>>,
          documents |-> documents, llm_calls |-> 1]
    ELSE [answer |-> LLM_ANSWER, sources |-> ExtractSources(documents),
          documents |-> documents, llm_calls |-> 1]

\* the answer built from the retrieved documents; llm_ok: the language
\* model call succeeds.  llm_calls counts the calls made to the model.
AnswerFrom(documents, llm_ok) ==
    IF documents = <<>>
    THEN [answer |-> NOT_FOUND_ANSWER, sources |-> <<>>,
          documents |-> documents, llm_calls |-> 0]
    ELSE IF ~llm_ok
    THEN [answer |-> ERROR_ANSWER, sources |-> <<>>,
          documents |-> documents, llm_calls |-> 1]
    ELSE [answer |-> LLM_ANSWER, sources |-> ExtractSources(documents),
          documents |-> documents, llm_calls |-> 1]

\* RAGQueryEngine.answer_question: the possible responses
answer_question(idx, index_ok, text, ticker, content_types, provider_ok, backend_ok, llm_ok) ==
    LET retrieved ==
            IF ticker # None /\ ticker # ""
            THEN retrieve_by_ticker(idx, index_ok, text, ticker, content_types,
                                    <<>>, provider_ok, backend_ok)
            ELSE retrieve_documents(idx, index_ok, text, NoFilter,
                                    <<>>, provider_ok, backend_ok)
    IN  {AnswerFrom(documents, llm_ok) : documents \in retrieved}

(***************************************************************************)
(* MetadataExtractor.extract_metadata (app/core/document_processing/       *)
(* metadata_extractor.py): the extracted values are abstracted to the text *)
(* they were computed from.                                                *)
(***************************************************************************)
extract_metadata(document) ==
    LET content == Get(document, "content", <<>>)
    IN  IF content = <<>> THEN document
        ELSE LET m0 == Get(document, "metadata", [k \in {} |-> [kind |-> "str", val |-> ""]])
                 m1 == Put(m0, "financial_periods", [kind |-> "list", val |-> content])
                 m2 == Put(m1, "entities", [kind |-> "dict", val |-> content])
                 m3 == Put(m2, "sentiment", [kind |-> "float", val |-> content])
                 m4 == Put(m3, "subjectivity", [kind |-> "float", val |-> content])
             IN  Put(document, "metadata", m4)

\* extract_metadata when the step fail_at raises (1: the financial periods,
\* 2: the entities, 3: the sentiment; 0: none does): the handler returns
\* `document`, the dict the steps before wrote to
extract_metadata_ends(document, fail_at) ==
    LET content == Get(document, "content", <<>>)
    IN  IF content = <<>> \/ fail_at = 0 THEN extract_metadata(document)
        ELSE LET m0 == Get(document, "metadata", [k \in {} |-> [kind |-> "str", val |-> ""]])
                 m1 == Put(m0, "financial_periods", [kind |-> "list", val |-> content])
                 m2 == Put(m1, "entities", [kind |-> "dict", val |-> content])
             IN  Put(document, "metadata",
                     IF fail_at = 1 THEN m0 ELSE IF fail_at = 2 THEN m1 ELSE m2)

(***************************************************************************)
(* clean_text (app/core/document_processing/text_cleaner.py).  A text is a *)
(* sequence of tokens: characters, the entity "&amp;", the tag "<b>" and   *)
(* the non-ASCII character U+00E9.                                         *)
(***************************************************************************)
Tags == {"<b>"}

NonAscii == {"U+00E9"}

\* html.unescape
Unescape(text) == [n \in 1..Len(text) |-> IF text[n] = "&amp;" THEN "&" ELSE text[n]]

RECURSIVE TextNodes(_, _)
\* the text nodes of the parsed markup, in order
TextNodes(text, node) ==
    IF text = <<>> THEN (IF node = <<>> THEN <<>> ELSE <<node>>)
    ELSE IF Head(text) \in Tags
    THEN (IF node = <<>> THEN <<>> ELSE <<node>>) \o TextNodes(Tail(text), <<>>)
    ELSE TextNodes(Tail(text), Append(node, Head(text)))

RECURSIVE JoinWith(_, _)
JoinWith(nodes, sep) ==
    IF nodes = <<>> THEN <<>>
    ELSE IF Len(nodes) = 1 THEN nodes[1]
    ELSE nodes[1] \o sep \o JoinWith(Tail(nodes), sep)

\* BeautifulSoup(text, 'html.parser').get_text(separator=' ')
GetText(text) == JoinWith(TextNodes(text, <<>>), <<" ">>)

RECURSIVE CollapseRuns(_, _, _)
\* re.sub(r'[class]+', repl, text): every run of tokens of the class is
\* replaced by repl
CollapseRuns(text, class, repl) ==
    IF text = <<>> THEN <<>>
    ELSE IF Head(text) \notin class THEN <<Head(text)>> \o CollapseRuns(Tail(text), class, repl)
    ELSE IF Len(text) > 1 /\ text[2] \in class THEN CollapseRuns(Tail(text), class, repl)
    ELSE <<repl>> \o CollapseRuns(Tail(text), class, repl)

\* the value of the variable `text` after the first n steps of clean_text
RECURSIVE CleanSteps(_, _)
CleanSteps(text, n) ==
    IF n = 0 THEN text
    ELSE LET before == CleanSteps(text, n - 1)
         IN  IF n = 1 THEN Unescape(before)
             ELSE IF n = 2 THEN GetText(before)
             ELSE IF n = 3 THEN CollapseRuns(before, Whitespace, " ")
             ELSE IF n = 4 THEN CollapseRuns(before, NonAscii, " ")
             ELSE IF n = 5 THEN (IF before # <<>> /\ Head(before) \in Tags
                                 THEN Tail(before) ELSE before)
             ELSE IF n = 6 THEN CollapseRuns(before, {"\n", "\r"}, "\n")
             ELSE Strip(before)

\* clean_text when step fail_at raises (0: none does): the handler returns
\* the variable `text`, which every completed step has reassigned
clean_text_ends(text, fail_at) ==
    Caught(fail_at # 0, CleanSteps(text, 7),
           CleanSteps(text, IF fail_at = 0 THEN 0 ELSE fail_at - 1))

(***************************************************************************)
(* RAGQueryEngine.format_retrieved_documents (app/core/rag/                *)
(* query_engine.py).  The context is a sequence of tokens: the characters  *)
(* of the contents and the pieces of the headers.                          *)
(***************************************************************************)
NO_CONTEXT == <<"No relevant information found.">>

\* header += f" ({filing_date})" when there is a filing date
WithDate(header, filing_date) ==
    IF filing_date # "" THEN header \o <<" (", filing_date, ")">> ELSE header

\* a header that is the position for every document
HeaderNumbered(metadata, i) == <<"Document ", ToString(i + 1)>>

\* the header of the document at 0-based position i
Header(metadata, i) ==
    LET doc_type == Get(metadata, "content_type", "document")
        filing_type == Get(metadata, "filing_type", "")
        filing_date == Get(metadata, "filing_date", "")
    IN  IF doc_type = "sec_filing" /\ filing_type # ""
        THEN WithDate(<<filing_type, " Filing">>, filing_date)
        ELSE IF doc_type = "news" THEN WithDate(<<"News Article">>, filing_date)
        ELSE IF doc_type = "financial_data" THEN WithDate(<<"Financial Data">>, filing_date)
        ELSE <<"Document ", ToString(i + 1)>>

\* context_part = f"[{header}]\n{content}\n"
ContextPart(doc, i) ==
    <<"[">> \o Header(Get(doc, "metadata", NoFilter), i) \o <<"]", "\n">>
        \o Get(doc, "content", <<>>) \o <<"\n">>

format_retrieved_documents(documents) ==
    IF documents = <<>> THEN NO_CONTEXT
    ELSE JoinWith([n \in 1..Len(documents) |-> ContextPart(documents[n], n - 1)],
                  <<"\n">>)

(***************************************************************************)
(* ResearchService (app/services/research_service.py).                     *)
(***************************************************************************)

\* a count that ignores the result of the upsert
CountedAlways(documents, success) == Len(documents)

\* `if success: document_count += len(documents)`: what an upsert that
\* returned `success` adds to document_count
Counted(documents, success) == IF success THEN Len(documents) ELSE 0

\* a guard that looks at the documents only
ShouldUpsertDocuments(documents, embeddings) == documents # <<>>

\* `if documents and embeddings:`, the guard of every upsert of the service
ShouldUpsert(documents, embeddings) == documents # <<>> /\ embeddings # <<>>

\* ResearchService.ingest_document.  provider_ok: the embedding provider
\* answers; fail_at: the upsert batch whose backend call raises (0: none);
\* db_ok: the metadata store accepts the document record.
ingest_document(idx, index_ok, chunker, document, provider_ok, fail_at, db_ok) ==
    LET doc == IF "metadata" \notin DOMAIN document
               THEN extract_metadata(document) ELSE document
        chunked_documents == chunk_document(chunker, doc)
        embedded == embed_documents(chunked_documents, provider_ok)
        documents == embedded[1]
        embeddings == embedded[2]
        up == upsert_documents(idx, index_ok, documents, embeddings, fail_at)
    IN  IF ShouldUpsert(documents, embeddings)
        THEN [index |-> up.index,
              result |-> up.ok /\ db_ok,
              chunks |-> chunked_documents,
              embeddings |-> embeddings,
              vectors |-> BuildVectors(documents, embeddings),
              upsert_called |-> TRUE,
              upsert_ok |-> up.ok,
              backend_calls |-> up.calls]
        ELSE [index |-> idx,
              result |-> FALSE,
              chunks |-> chunked_documents,
              embeddings |-> embeddings,
              vectors |-> <<>>,
              upsert_called |-> FALSE,
              upsert_ok |-> FALSE,
              backend_calls |-> 0]

\* the vectors that reached the backend in an upsert_documents call: those
\* of the batches before the one whose call raised, all when none raised
WrittenVectors(documents, embeddings, up) ==
    LET batches == Batches(BuildVectors(documents, embeddings))
    IN  Concat(SubSeq(batches, 1, IF up.ok THEN Len(batches) ELSE up.calls - 1))

\* one content type's block of ingest_company_data, from the fetched
\* documents to the upsert: metadata extraction, chunking, embedding and the
\* guarded upsert.  indexed is what the block adds to document_count.
ingest_group(idx, index_ok, chunker, fetched, provider_ok, fail_at) ==
    LET docs == [n \in 1..Len(fetched) |-> extract_metadata(fetched[n])]
        chunked == chunk_financial_data(chunker, docs)
        embedded == embed_documents(chunked, provider_ok)
        documents == embedded[1]
        embeddings == embedded[2]
        up == upsert_documents(idx, index_ok, documents, embeddings, fail_at)
    IN  IF fetched # <<>> /\ ShouldUpsert(documents, embeddings)
        THEN [index |-> up.index,
              indexed |-> Counted(documents, up.ok),
              chunks |-> chunked,
              embeddings |-> embeddings,
              vectors |-> BuildVectors(documents, embeddings),
              written |-> IF index_ok THEN WrittenVectors(documents, embeddings, up)
                          ELSE <<>>,
              upsert_called |-> TRUE,
              upsert_ok |-> up.ok,
              backend_calls |-> up.calls]
        ELSE [index |-> idx,
              indexed |-> 0,
              chunks |-> IF fetched # <<>> THEN chunked ELSE <<>>,
              embeddings |-> IF fetched # <<>> THEN embeddings ELSE <<>>,
              vectors |-> <<>>,
              written |-> <<>>,
              upsert_called |-> FALSE,
              upsert_ok |-> FALSE,
              backend_calls |-> 0]

\* the content type block that follows the block pc in ingest_company_data
\* ("start": the ingestion record was stored; "finish": the company record
\* and the final status come next)
NextBlock(pc, include_news, include_financials) ==
    IF pc = "start" THEN "sec_filing"
    ELSE IF pc = "sec_filing" /\ include_news THEN "news"
    ELSE IF pc \in {"sec_filing", "news"} /\ include_financials THEN "financial_data"
    ELSE "finish"

\* an expansion that gives nothing when the model call fails
ExpansionOrNothing(text, expansion) ==
    IF expansion = <<>> THEN <<>> ELSE Strip(expansion[1])

\* QueryAugmentation.expand_financial_query: the model's text, or the
\* original query when the call fails (expansion is <<>> then)
expand_financial_query(text, expansion) ==
    IF expansion = <<>> THEN text ELSE Strip(expansion[1])

(***************************************************************************)
(* QueryAugmentation.generate_search_filters.  The model's response is a   *)
(* sequence of tokens [t |-> kind]: "ws" (whitespace), "fence_json" (the   *)
(* text ```json), "fence" (```), "text" (any other text) and "json" (the   *)
(* text of a JSON object, obj).  A JSON object maps its keys to values     *)
(* [kind |-> "list", items |-> seq] or [kind |-> "null"].                  *)
(***************************************************************************)
RECURSIVE StripTokens(_)
\* str.strip() on a response
StripTokens(text) ==
    IF text = <<>> THEN text
    ELSE IF Head(text).t = "ws" THEN StripTokens(Tail(text))
    ELSE IF text[Len(text)].t = "ws" THEN StripTokens(SubSeq(text, 1, Len(text) - 1))
    ELSE text

\* str.replace(fence, ""): the tokens of the given kinds are removed
RemoveTokens(text, kinds) == SelectSeq(text, LAMBDA x : x.t \notin kinds)

\* what is left of a ```json token once the ``` in it are removed
UnfenceJson(text) ==
    [n \in 1..Len(text) |-> IF text[n].t = "fence_json" THEN [t |-> "text"] ELSE text[n]]

\* the cleaning of the response before it is parsed
CleanResponse(response) ==
    LET filter_json == StripTokens(response)
    IN  IF filter_json # <<>> /\ filter_json[1].t = "fence_json"
        THEN StripTokens(RemoveTokens(filter_json, {"fence_json", "fence"}))
        ELSE IF filter_json # <<>> /\ filter_json[1].t = "fence"
        THEN StripTokens(RemoveTokens(UnfenceJson(filter_json), {"fence"}))
        ELSE filter_json

\* json.loads: a text parses when it is the text of one JSON value,
\* whitespace around it allowed
JsonLoads(text) ==
    LET body == StripTokens(text)
    IN  IF Len(body) = 1 /\ body[1].t = "json"
        THEN [ok |-> TRUE, value |-> body[1].obj]
        ELSE [ok |-> FALSE, value |-> <<>>]

\* `filters.get(key)` taken as a condition: the key is there and its value
\* is a list that is not empty
Truthy(filters, key) ==
    /\ key \in DOMAIN filters
    /\ filters[key].kind = "list"
    /\ filters[key].items # <<>>

\* a condition that is a set membership whatever the length
ConditionIn(items) == In(items)

\* the filter condition for a list that is not empty: the element itself
\* for one element, {"$in": list} for more
Condition(items) == IF Len(items) = 1 THEN Eq(items[1]) ELSE In(items)

\* the conversion to the filter format
pinecone_filters(filters) ==
    LET f1 == IF Truthy(filters, "tickers")
              THEN Put(NoFilter, "ticker", Condition(filters["tickers"].items))
              ELSE NoFilter
    IN  IF Truthy(filters, "document_types")
        THEN Put(f1, "content_type", Condition(filters["document_types"].items))
        ELSE f1

\* QueryAugmentation.generate_search_filters: how the call ends, for a
\* model call that fails (llm_ok false) or answers with `response`
generate_search_filters(response, llm_ok) ==
    LET parsed == JsonLoads(CleanResponse(response))
    IN  Caught(~llm_ok \/ ~parsed.ok,
               IF llm_ok /\ parsed.ok THEN pinecone_filters(parsed.value) ELSE NoFilter,
               NoFilter)

PROCESS_ERROR_ANSWER == "I encountered an error processing your query"

\* ResearchService.process_query: the possible results.  db_ok: the query is
\* logged; expansion: <<t>> when the model expands the query to t, <<>> when
\* that call fails.  An expanded_query of None is <<>>, a text t is <<t>>.
process_query(idx, index_ok, text, ticker, content_types, expand_query, db_ok, expansion, provider_ok, backend_ok, llm_ok) ==
    IF ~db_ok
    THEN {[answer |-> PROCESS_ERROR_ANSWER, sources |-> <<>>, query |-> text,
           answered |-> FALSE]}
    ELSE LET expanded_query == IF expand_query
                               THEN <<expand_financial_query(text, expansion)>>
                               ELSE <<>>
             query_to_use == IF expand_query THEN expanded_query[1] ELSE text
         IN  {[answer |-> response.answer,
               sources |-> response.sources,
               query |-> text,
               expanded_query |-> expanded_query,
               answered |-> TRUE,
               query_used |-> query_to_use,
               documents |-> response.documents,
               llm_calls |-> response.llm_calls] :
              response \in answer_question(idx, index_ok, query_to_use, ticker,
                                           content_types, provider_ok, backend_ok, llm_ok)}

\* the topics start_company_research uses when none are given
DEFAULT_TOPICS ==
    << <<"Financial", " ", "Performance">>, <<"Business", " ", "Overview">>,
       <<"Risks">>, <<"Future", " ", "Outlook">> >>

\* f" for {time_period}" when a time period is given (<<>>: None)
ForPeriod(time_period) ==
    IF time_period = <<>> THEN <<>> ELSE <<" ", "for", " ">> \o time_period

\* f"Provide an analysis of {ticker}'s {topic}" with the optional period
topic_query(ticker, topic, time_period) ==
    <<"Provide", " ", "an", " ", "analysis", " ", "of", " ", ticker, "'s", " ">>
        \o topic \o ForPeriod(time_period)

\* f"Provide a concise executive summary of {ticker}" with the optional period
summary_query(ticker, time_period) ==
    <<"Provide", " ", "a", " ", "concise", " ", "executive", " ", "summary", " ",
      "of", " ", ticker>> \o ForPeriod(time_period)

\* ResearchService.start_company_research: the report stored, with the
\* locals generate_research_report keeps while it runs (pc: the number of
\* the topic whose section comes next)
start_company_research(ticker, topics, time_period) ==
    [ticker |-> ticker,
     topics |-> IF topics = <<>> THEN DEFAULT_TOPICS ELSE topics,
     time_period |-> time_period,
     sections |-> <<>>,
     summary |-> "",
     sources |-> <<>>,
     status |-> "processing",
     pc |-> 1,
     local_sections |-> <<>>,
     all_sources |-> <<>>,
     summary_sources |-> <<>>,
     local_summary |-> "",
     asked |-> <<>>]

\* what generate_research_report reads of a process_query response, with
\* the query it was the response to
Asked(response) ==
    [query |-> response.query, answer |-> response.answer,
     sources |-> response.sources, answered |-> response.answered]

\* a topic loop that keeps a section only for a query that was answered
SectionIfAnswered(rep, response) ==
    [rep EXCEPT !.local_sections =
                    IF response.answered
                    THEN Append(@, [title |-> rep.topics[rep.pc],
                                    content |-> response.answer,
                                    sources |-> response.sources])
                    ELSE @,
                !.all_sources = @ \o response.sources,
                !.asked = Append(@, Asked(response)),
                !.pc = @ + 1]

\* one pass of the topic loop of generate_research_report, given the
\* response process_query gave for the topic; asked keeps the responses of
\* the process_query calls made so far
report_section(rep, response) ==
    [rep EXCEPT !.local_sections = Append(@, [title |-> rep.topics[rep.pc],
                                              content |-> response.answer,
                                              sources |-> response.sources]),
                !.all_sources = @ \o response.sources,
                !.asked = Append(@, Asked(response)),
                !.pc = @ + 1]

\* the executive summary step, given process_query's response
report_summary(rep, response) ==
    [rep EXCEPT !.local_summary = response.answer,
                !.summary_sources = response.sources,
                !.all_sources = @ \o response.sources,
                !.asked = Append(@, Asked(response)),
                !.pc = @ + 1]

\* an error handler that forgets the error update
UpdateKeepsStatus(rep, outcome) ==
    IF outcome = "completed"
    THEN [rep EXCEPT !.sections = rep.local_sections,
                     !.summary = rep.local_summary,
                     !.sources = unique_sources(rep.all_sources, {}),
                     !.status = "completed",
                     !.pc = 0]
    ELSE [rep EXCEPT !.pc = 0]

\* the duplicate removal and the final update_research_report.  outcome:
\* "completed" when the update is stored, "error" when it fails and the
\* error update is stored, "raised" when that fails too
report_update(rep, outcome) ==
    IF outcome = "completed"
    THEN [rep EXCEPT !.sections = rep.local_sections,
                     !.summary = rep.local_summary,
                     !.sources = unique_sources(rep.all_sources, {}),
                     !.status = "completed",
                     !.pc = 0]
    ELSE IF outcome = "error"
    THEN [rep EXCEPT !.status = "error", !.pc = 0]
    ELSE [rep EXCEPT !.pc = 0]

\* how generate_research_report ends: it returns what the final update
\* returned, False after the error update, and raises when the error
\* update, made inside the handler, fails as well
generate_research_report_end(outcome) ==
    [returned |-> outcome = "completed", raised |-> outcome = "raised"]

(***************************************************************************)
(* The state machine.                                                      *)
(*   chunker   the service's TextChunker (chunk_size, chunk_overlap)       *)
(*   index_ok  whether init_connection gave the store an index object      *)
(*   index     the backend's records, by record id                         *)
(*   last      the call made by the latest step, with what it returned     *)
(*   tasks     the background ingest_company_data runs                     *)
(*   report    the research report being generated                         *)
(***************************************************************************)
VARIABLES chunker, index_ok, index, last, tasks, report

vars == <<chunker, index_ok, index, last, tasks, report>>

\* the inputs the model draws from
TextAB == <<"a", "b">>

TextCD == <<"c", "d">>

TextLong == <<"a", "b", " ", "c", "d">>

\* the chunk size and overlap of the small chunker configuration
SmallChunkSize == 4

SmallChunkOverlap == 1

\* the constructor arguments the service's chunker is built with
ChunkerArgs == {<< <<>>, <<>> >>, << <<SmallChunkSize>>, <<SmallChunkOverlap>> >>}

\* the chunker with the small chunk size
SmallChunker == TextChunker(<<SmallChunkSize>>, <<SmallChunkOverlap>>)

EmptyIndex == [id \in {} |-> [id |-> "", values |-> <<>>]]

\* the documents handed to ingest_document
IngestDocs ==
    { [ticker |-> "AAPL", content_type |-> "sec_filing", source |-> "aapl-10k",
       content |-> TextLong, filing_type |-> "10-K", filing_date |-> "2023-01-01"],
      [ticker |-> "AAPL", content_type |-> "sec_filing", source |-> "aapl-10k",
       content |-> TextAB, filing_type |-> "10-K", filing_date |-> "2023-01-01"],
      [ticker |-> "AAPL", content_type |-> "sec_filing", source |-> "aapl-10q",
       content |-> TextCD, filing_type |-> "10-Q"],
      [ticker |-> "MSFT", content_type |-> "news", source |-> "wire",
       content |-> TextAB],
      [ticker |-> "MSFT", content_type |-> "news", source |-> "wire",
       content |-> <<>>],
      [source |-> "upload.txt", content |-> TextAB,
       metadata |-> [source |-> [kind |-> "str", val |-> "archive"],
                     ticker |-> [kind |-> "str", val |-> "AAPL"]]] }

\* what the collaborators do during one call: the metadata store, the
\* embedding provider, the index backend and the language model each answer
\* or fail; a call meets at most one failing collaborator, the first failure
\* deciding its outcome
AllOk == [db_ok |-> TRUE, provider_ok |-> TRUE, backend_ok |-> TRUE, llm_ok |-> TRUE]

Faults ==
    {AllOk} \cup {[AllOk EXCEPT ![f] = FALSE] :
                     f \in {"db_ok", "provider_ok", "backend_ok", "llm_ok"}}

\* the query texts, and the texts the language model may expand a query to
Queries == {TextAB, TextCD}

\* the queries handed to retrieve_documents: those, and the empty text
RetrieveQueries == Queries \cup {<<>>}

QueryTickers == {None, "AAPL"}

QueryContentTypes == {<<>>, <<"news">>}

\* whether process_query expands the query, and what the model answers:
\* <<>> when its call fails, <<t>> when it gives the text t
Expansions ==
    {[expand_query |-> FALSE, expansion |-> <<>>],
     [expand_query |-> TRUE, expansion |-> <<>>],
     [expand_query |-> TRUE, expansion |-> <<TextCD>>]}

QueryFilters == {NoFilter, TickerFilter("AAPL", <<>>)}

\* the top_k values handed to retrieve_documents (<<>>: omitted)
MaxTopK == 2

TopKs == {<<>>} \cup {<<k>> : k \in 0..MaxTopK}

IdleTasks == [t \in {} |-> [pc |-> "done"]]

\* no report is stored and no report is being generated (pc 0)
NoReport == [status |-> "none", pc |-> 0]

Init ==
    /\ \E args \in ChunkerArgs : chunker = TextChunker(args[1], args[2])
    /\ ChunkerValid(chunker)
    /\ index_ok \in BOOLEAN
    /\ index = EmptyIndex
    /\ last = [op |-> "init"]
    /\ tasks = IdleTasks
    /\ report = NoReport

\* the (ticker, content_type, chunk_id) triples of a chunk list, in order
Triples(chunks) ==
    [n \in 1..Len(chunks) |->
        [ticker |-> Get(chunks[n], "ticker", None),
         content_type |-> Get(chunks[n], "content_type", None),
         chunk_id |-> chunks[n]["chunk_id"]]]

\* the latest step was an ingest_document call whose upsert succeeded
UpsertedLast == last.op = "ingest_document" /\ last.upsert_ok

\* the latest step was an ingest_document call that reported success, for a
\* document of exactly one chunk, into an index that was empty
SingleChunkIngested ==
    /\ last.op = "ingest_document"
    /\ last.result
    /\ last.was_empty
    /\ Len(last.chunks) = 1

\* the state after an ingest_document call that gave `out`
IngestDocumentDone(out, document, env) ==
    /\ index' = out.index
    /\ last' = [op |-> "ingest_document",
                document |-> document,
                provider_ok |-> env.provider_ok,
                was_empty |-> index = EmptyIndex,
                repeats |-> /\ UpsertedLast
                            /\ out.upsert_ok
                            /\ Triples(out.chunks) = Triples(last.chunks),
                chunks |-> out.chunks,
                embeddings |-> out.embeddings,
                vectors |-> out.vectors,
                upsert_called |-> out.upsert_called,
                upsert_ok |-> out.upsert_ok,
                backend_calls |-> out.backend_calls,
                result |-> out.result]
    /\ UNCHANGED <<chunker, index_ok, tasks, report>>

\* a call of ingest_document
IngestDocument ==
    \E document \in IngestDocs, env \in Faults :
        /\ env.llm_ok
        /\ IngestDocumentDone(
               ingest_document(index, index_ok, chunker, document, env.provider_ok,
                               IF env.backend_ok THEN 0 ELSE 1, env.db_ok),
               document, env)

\* a call of retrieve_documents
RetrieveDocuments ==
    \E text \in RetrieveQueries, filters \in QueryFilters, top_k \in TopKs, env \in Faults :
        \E end \in retrieve_ends(index, index_ok, text, filters, top_k,
                                  env.provider_ok, env.backend_ok) :
            /\ env.db_ok /\ env.llm_ok
            /\ last' = [op |-> "retrieve_documents",
                        query |-> text,
                        provider_ok |-> env.provider_ok,
                        top_k |-> top_k,
                        documents |-> end.documents,
                        store_queries |-> end.store_queries,
                        raised |-> end.raised]
            /\ UNCHANGED <<chunker, index_ok, index, tasks, report>>

\* a call of process_query
ProcessQuery ==
    \E text \in {TextAB}, ticker \in QueryTickers, content_types \in QueryContentTypes,
       x \in Expansions, env \in Faults :
        \E result \in process_query(index, index_ok, text, ticker, content_types,
                                    x.expand_query, env.db_ok, x.expansion,
                                    env.provider_ok, env.backend_ok, env.llm_ok) :
            /\ last' = [op |-> "process_query",
                        query |-> text,
                        expand_query |-> x.expand_query,
                        expansion |-> x.expansion,
                        ticker |-> ticker,
                        content_types |-> content_types,
                        env |-> env,
                        after_single |-> SingleChunkIngested,
                        result |-> result]
            /\ UNCHANGED <<chunker, index_ok, index, tasks, report>>

Next == IngestDocument \/ ProcessQuery

Spec == Init /\ [][Next]_vars

\* the retriever called directly, over the indexes ingest_document builds
NextRetrieve == IngestDocument \/ RetrieveDocuments

SpecRetrieve == Init /\ [][NextRetrieve]_vars

(***************************************************************************)
(* SpecStore: the methods of one PineconeVectorStore called directly, with *)
(* a backend that answers or fails at each call.                           *)
(***************************************************************************)

\* a document list handed to embed_documents as it was fetched: a news item
\* without content, then two documents with content
UnchunkedDocs ==
    << [ticker |-> "MSFT", content_type |-> "news", source |-> "wire",
        content |-> <<>>],
       [ticker |-> "AAPL", content_type |-> "sec_filing", source |-> "aapl-10k",
        content |-> TextAB],
       [ticker |-> "AAPL", content_type |-> "financial_data", source |-> "yahoo",
        content |-> TextCD] >>

\* the chunk lists handed to upsert_documents
StoreDocs ==
    {chunk_document(SmallChunker, d) : d \in IngestDocs} \cup {UnchunkedDocs}

\* the id lists handed to delete_documents
StoreIds == {<<>>, <<"AAPL_sec_filing_0">>, <<"AAPL_sec_filing_1", "MSFT_news_0">>}

\* the filters handed to delete_by_filter
StoreFilters == {TickerFilter("AAPL", <<>>), TickerFilter("MSFT", <<"news">>)}

\* PineconeVectorStore.__init__: connecting succeeds or fails
InitStore ==
    /\ chunker = SmallChunker
    /\ \E connect_ok \in BOOLEAN : index_ok = init_connection(connect_ok)
    /\ index = EmptyIndex
    /\ last = [op |-> "init"]
    /\ tasks = IdleTasks
    /\ report = NoReport

\* the state after a method of the store ended as `end` (its value and
\* whether it raised), leaving the backend content idx; failed: a backend
\* call of the method failed
StoreCallDone(op, idx, failed, value, raised) ==
    /\ index' = idx
    /\ last' = [op |-> op, failed |-> failed, value |-> value, raised |-> raised]
    /\ UNCHANGED <<chunker, index_ok, tasks, report>>

StoreUpsertDone(up, failed) ==
    StoreCallDone("upsert_documents", up.index, failed, up.ok, up.raised)

StoreUpsert ==
    \E documents \in StoreDocs, fail_at \in 0..1 :
        LET embeddings == embed_documents(documents, TRUE)[2]
        IN  StoreUpsertDone(
                upsert_documents(index, index_ok, documents, embeddings, fail_at),
                index_ok /\ fail_at \in 1..Len(Batches(BuildVectors(documents, embeddings))))

StoreQuery ==
    \E text \in Queries, filter \in QueryFilters, top_k \in 0..MaxTopK,
       backend_ok \in BOOLEAN :
        \E end \in query_ends(index, index_ok, Vec(text), filter, top_k, backend_ok) :
            StoreCallDone("query", index, index_ok /\ (~backend_ok \/ top_k < 1),
                          end.value, end.raised)

StoreDeleteDone(op, del, failed) ==
    StoreCallDone(op, del.index, failed, del.ok, del.raised)

StoreDeleteDocuments ==
    \E ids \in StoreIds, backend_ok \in BOOLEAN :
        StoreDeleteDone("delete_documents",
                        delete_documents(index, index_ok, ids, backend_ok),
                        index_ok /\ ~backend_ok)

StoreDeleteByFilter ==
    \E filter \in StoreFilters, backend_ok \in BOOLEAN :
        StoreDeleteDone("delete_by_filter",
                        delete_by_filter(index, index_ok, filter, backend_ok),
                        index_ok /\ ~backend_ok)

NextStore == StoreUpsert \/ StoreQuery \/ StoreDeleteDocuments \/ StoreDeleteByFilter

SpecStore == InitStore /\ [][NextStore]_vars

\* C12: no method of the vector store raises, and when the index was never
\* initialised or a backend call of the method failed, upsert_documents,
\* delete_documents and delete_by_filter return False and query returns
\* the empty list.
C12_StoreNeverRaises ==
    last.op \in {"upsert_documents", "query", "delete_documents", "delete_by_filter"} =>
        /\ ~last.raised
        /\ (~index_ok \/ last.failed) =>
               last.value = (IF last.op = "query" THEN <<>> ELSE FALSE)

\* the backend failed during a delete_by_filter on an index that holds
\* records
C12_Witness ==
    /\ last.op = "delete_by_filter"
    /\ index_ok
    /\ last.failed
    /\ ~last.value
    /\ index # EmptyIndex

\* C26: every record written by upsert_documents after embed_documents
\* stores the embedding of its own content: a record that holds text holds
\* the vector computed from that text, also when the document list held
\* entries the embedder filtered out.
C26_OwnEmbedding ==
    \A id \in DOMAIN index :
        index[id].metadata["text_snippet"] # <<>> =>
            index[id].values = Vec(index[id].metadata["text_snippet"])

(***************************************************************************)
(* SpecFilters: generate_search_filters as a function of the model's       *)
(* response.  Init draws what the model found and how it wrote it,         *)
(* GenerateSearchFilters makes the call.                                   *)
(***************************************************************************)

\* what the model may give for a key of its JSON object: nothing, null or a
\* list
AbsentValue == [kind |-> "absent", items |-> <<>>]

ListValue(items) == [kind |-> "list", items |-> items]

TickerValues ==
    {AbsentValue, [kind |-> "null", items |-> <<>>], ListValue(<<>>),
     ListValue(<<"AAPL">>), ListValue(<<"AAPL", "MSFT">>),
     ListValue(<<"MSFT", "AAPL", "GOOG">>)}

DocumentTypeValues ==
    {AbsentValue, ListValue(<<>>), ListValue(<<"10-K">>), ListValue(<<"10-K", "10-Q">>)}

\* the JSON object with the given values; a key whose value is absent is
\* left out, the metrics the model lists are always there
FilterObject(tickers, document_types) ==
    LET all == [k \in {"tickers", "document_types", "metrics"} |->
                   IF k = "tickers" THEN tickers
                   ELSE IF k = "document_types" THEN document_types
                   ELSE ListValue(<<"revenue">>)]
    IN  [k \in {x \in DOMAIN all : all[x].kind # "absent"} |-> all[k]]

\* the ways the model writes its answer
ResponseShapes == {"plain", "padded", "fenced_json", "fenced", "prose", "truncated"}

ParsedShapes == {"plain", "padded", "fenced_json", "fenced"}

\* the response of the given shape for a JSON object
Render(shape, obj) ==
    LET J == [t |-> "json", obj |-> obj]
        W == [t |-> "ws"]
    IN  IF shape = "plain" THEN <<J>>
        ELSE IF shape = "padded" THEN <<W, J, W>>
        ELSE IF shape = "fenced_json" THEN <<[t |-> "fence_json"], W, J, W, [t |-> "fence"]>>
        ELSE IF shape = "fenced" THEN <<W, [t |-> "fence"], W, J, [t |-> "fence"]>>
        ELSE IF shape = "prose" THEN <<[t |-> "text"], W, J>>
        ELSE <<[t |-> "text"]>>

InitFilters ==
    /\ chunker = SmallChunker
    /\ index_ok = TRUE
    /\ index = EmptyIndex
    /\ \E tickers \in TickerValues, document_types \in DocumentTypeValues,
          shape \in ResponseShapes, llm_ok \in BOOLEAN :
           last = [op |-> "input", tickers |-> tickers,
                   document_types |-> document_types, shape |-> shape,
                   llm_ok |-> llm_ok]
    /\ tasks = IdleTasks
    /\ report = NoReport

\* the state after generate_search_filters ended as `end`
GenerateSearchFiltersDone(end) ==
    /\ last' = [op |-> "generate_search_filters", tickers |-> last.tickers,
                document_types |-> last.document_types, shape |-> last.shape,
                llm_ok |-> last.llm_ok, filters |-> end.value, raised |-> end.raised]
    /\ UNCHANGED <<chunker, index_ok, index, tasks, report>>

GenerateSearchFilters ==
    /\ last.op = "input"
    /\ GenerateSearchFiltersDone(
           generate_search_filters(
               Render(last.shape, FilterObject(last.tickers, last.document_types)),
               last.llm_ok))

NextFilters == GenerateSearchFilters

SpecFilters == InitFilters /\ [][NextFilters]_vars

\* what the filter holds under `key` for the value the model gave
MappedAsClaimed(filters, key, value) ==
    IF value.kind = "list" /\ Len(value.items) = 1
    THEN key \in DOMAIN filters /\ filters[key] = Eq(value.items[1])
    ELSE IF value.kind = "list" /\ Len(value.items) >= 2
    THEN key \in DOMAIN filters /\ filters[key] = In(value.items)
    ELSE key \notin DOMAIN filters

\* C15: generate_search_filters does not raise; from a response that
\* parses it builds the filter whose `ticker` and `content_type` keys are,
\* each on its own, an equality for a one-element list, a membership in
\* the list for two or more elements and absent for an empty or missing
\* list, with no other key; from a response that does not parse it builds
\* the empty filter.
C15_FiltersFromLists ==
    last.op = "generate_search_filters" =>
        /\ ~last.raised
        /\ DOMAIN last.filters \subseteq {"ticker", "content_type"}
        /\ (last.llm_ok /\ last.shape \in ParsedShapes) =>
               /\ MappedAsClaimed(last.filters, "ticker", last.tickers)
               /\ MappedAsClaimed(last.filters, "content_type", last.document_types)
        /\ (last.llm_ok /\ last.shape \notin ParsedShapes) => last.filters = NoFilter

\* a fenced response with one ticker and two document types gave an
\* equality and a membership
C15_Witness ==
    /\ last.op = "generate_search_filters"
    /\ last.llm_ok
    /\ last.shape = "fenced_json"
    /\ last.tickers = ListValue(<<"AAPL">>)
    /\ last.document_types = ListValue(<<"10-K", "10-Q">>)
    /\ last.filters["ticker"] = Eq("AAPL")
    /\ last.filters["content_type"] = In(<<"10-K", "10-Q">>)

(***************************************************************************)
(* SpecBatch: upsert_documents on chunk lists whose length is around the   *)
(* multiples of batch_size.  Init draws the length and the backend call    *)
(* that fails, UpsertMany makes the call.                                  *)
(***************************************************************************)

\* how far from a multiple of batch_size the lengths drawn lie
NearBatch == 5

\* the lengths of the chunk lists
ManyCounts ==
    UNION {{n \in (k * batch_size - NearBatch)..(k * batch_size + NearBatch) : n >= 0} :
           k \in 0..2}

\* the n chunks of one filing, and their embeddings
ManyDocuments(n) ==
    [i \in 1..n |-> [ticker |-> "AAPL", content_type |-> "sec_filing",
                     source |-> "aapl-10k", content |-> TextAB,
                     chunk_id |-> i - 1, chunk_count |-> n]]

ManyEmbeddings(n) == [i \in 1..n |-> Vec(TextAB)]

InitBatch ==
    /\ chunker = SmallChunker
    /\ index_ok \in BOOLEAN
    /\ index = EmptyIndex
    /\ \E n \in ManyCounts, fail_at \in 0..3 :
           last = [op |-> "input", n |-> n, fail_at |-> fail_at]
    /\ tasks = IdleTasks
    /\ report = NoReport

\* the state after upsert_documents returned `up`
UpsertManyDone(up) ==
    /\ index' = up.index
    /\ last' = [op |-> "upsert_documents", n |-> last.n, fail_at |-> last.fail_at,
                ok |-> up.ok, calls |-> up.calls]
    /\ UNCHANGED <<chunker, index_ok, tasks, report>>

UpsertMany ==
    /\ last.op = "input"
    /\ UpsertManyDone(upsert_documents(index, index_ok, ManyDocuments(last.n),
                                       ManyEmbeddings(last.n), last.fail_at))

NextBatch == UpsertMany

SpecBatch == InitBatch /\ [][NextBatch]_vars

\* the record list of the call that was made
LastVectors == BuildVectors(ManyDocuments(last.n), ManyEmbeddings(last.n))

\* the batches are consecutive slices of at most 500 records which, in call
\* order, make up the record list; after a call that returned True there
\* was one backend call per batch and the backend holds every record
CoverInOrder(vectors, batches, idx) ==
    /\ \A b \in 1..Len(batches) : Len(batches[b]) \in 1..500
    /\ last.ok =>
           /\ last.calls = Len(batches)
           /\ Concat(batches) = vectors
           /\ \A n \in 1..Len(vectors) : idx[vectors[n].id] = vectors[n]

\* C13: upsert_documents makes its backend calls with batches of at most 500
\* records; when it returns True it made one call per batch, and the
\* batches in call order, put end to end, are the record list in input
\* order, so that every record was sent once and the backend holds it.
C13_BatchesCoverInOrder ==
    last.op = "upsert_documents" =>
        CoverInOrder(LastVectors, Batches(LastVectors), index)

\* an upsert of more than two full batches succeeded with three calls
C13_Witness ==
    /\ last.op = "upsert_documents"
    /\ last.ok
    /\ last.n > 2 * batch_size
    /\ last.calls = 3
    /\ Cardinality(DOMAIN index) = last.n

\* C27: an upsert_documents call that returned False wrote no record: the
\* index, empty before the call, is empty after it.
C27_FalseWritesNothing ==
    (last.op = "upsert_documents" /\ ~last.ok) => index = EmptyIndex

(***************************************************************************)
(* SpecChunk: chunk_document as a function of the chunker configuration    *)
(* and the document.  Init draws both, ChunkDocument applies the function. *)
(***************************************************************************)

\* the longest content drawn
MaxTextLen == 4

\* the largest chunk_size and chunk_overlap arguments drawn
MaxChunkSize == 4

MaxChunkOverlap == 2

Alphabet == {"a", " ", "\n"}

Texts == UNION {[1..n -> Alphabet] : n \in 0..MaxTextLen}

\* the constructor arguments drawn: omitted, or a number (0 is falsy and
\* falls back to the configured default)
ChunkArgs ==
    ({<<>>} \cup {<<n>> : n \in 1..MaxChunkSize})
        \X ({<<>>} \cup {<<n>> : n \in 0..MaxChunkOverlap})

\* the documents drawn: a filing, and a document that was a chunk before
ChunkInputs ==
    {[ticker |-> "AAPL", content_type |-> "sec_filing", source |-> "aapl-10k",
      content |-> text] : text \in Texts}
    \cup {[source |-> "upload.txt", chunk_id |-> 7, chunk_count |-> 9,
           metadata |-> [page |-> [kind |-> "str", val |-> "1"]],
           content |-> text] : text \in Texts}

InitChunk ==
    /\ \E args \in ChunkArgs, document \in ChunkInputs :
           /\ chunker = TextChunker(args[1], args[2])
           /\ last = [op |-> "input", document |-> document,
                      chunk_size |-> args[1], chunk_overlap |-> args[2]]
    /\ ChunkerValid(chunker)
    /\ index_ok = TRUE
    /\ index = EmptyIndex
    /\ tasks = IdleTasks
    /\ report = NoReport

\* a call of chunk_document on the drawn document
ChunkDocument ==
    /\ last.op = "input"
    /\ last' = [last EXCEPT !.op = "chunk_document"] @@
                [chunks |-> chunk_document(chunker, last.document)]
    /\ UNCHANGED <<chunker, index_ok, index, tasks, report>>

NextChunk == ChunkDocument

SpecChunk == InitChunk /\ [][NextChunk]_vars

\* the fields chunk_document sets on a chunk
ChunkFields == {"content", "chunk_id", "chunk_count"}

\* C3: the chunks of a document with non-empty content carry chunk_id 0,
\* 1, ..., n-1 in output order and all carry chunk_count n, the number of
\* chunks returned; every other field of the parent is kept unchanged.
C3_ChunkIdsContiguous ==
    (last.op = "chunk_document" /\ Get(last.document, "content", <<>>) # <<>>) =>
        LET n == Len(last.chunks)
        IN  \A i \in 1..n :
                /\ last.chunks[i]["chunk_id"] = i - 1
                /\ last.chunks[i]["chunk_count"] = n
                /\ DOMAIN last.chunks[i] = DOMAIN last.document \cup ChunkFields
                /\ \A k \in DOMAIN last.document \ ChunkFields :
                       last.chunks[i][k] = last.document[k]

\* a document that carried chunk fields of its own was cut into three chunks
C3_Witness ==
    /\ last.op = "chunk_document"
    /\ Get(last.document, "chunk_id", 0) = 7
    /\ Len(last.chunks) = 3
    /\ last.chunks[3]["chunk_id"] = 2

\* C14: with a chunk_overlap below the chunk_size, every chunk that
\* chunk_document returns has a content of at most chunk_size characters.
C14_ChunkWithinSize ==
    (last.op = "chunk_document" /\ chunker.chunk_overlap < chunker.chunk_size) =>
        \A i \in 1..Len(last.chunks) :
            Len(last.chunks[i]["content"]) <= chunker.chunk_size

\* a content longer than the chunk size was cut into several chunks, one of
\* them as long as the chunk size allows, the next one starting with the
\* overlap
C14_Witness ==
    /\ last.op = "chunk_document"
    /\ chunker.chunk_overlap < chunker.chunk_size
    /\ chunker.chunk_size < Len(last.document["content"])
    /\ Len(last.chunks) >= 2
    /\ Len(last.chunks[1]["content"]) = chunker.chunk_size
    /\ Len(last.chunks[1]["content"]) >= 2
    /\ Head(last.chunks[2]["content"])
           = last.chunks[1]["content"][Len(last.chunks[1]["content"])]

(***************************************************************************)
(* SpecExtract: extract_metadata as a function of the document and of the  *)
(* step that raises.  Init draws both, ExtractMetadata makes the call.     *)
(***************************************************************************)

\* the extraction steps that may raise (0: none)
ExtractFailures == 0..3

InitExtract ==
    /\ chunker = SmallChunker
    /\ index_ok = TRUE
    /\ index = EmptyIndex
    /\ \E document \in ChunkInputs, fail_at \in ExtractFailures :
           last = [op |-> "input", document |-> document, fail_at |-> fail_at]
    /\ tasks = IdleTasks
    /\ report = NoReport

ExtractMetadata ==
    /\ last.op = "input"
    /\ last' = [op |-> "extract_metadata", document |-> last.document,
                fail_at |-> last.fail_at,
                returned |-> extract_metadata_ends(last.document, last.fail_at)]
    /\ UNCHANGED <<chunker, index_ok, index, tasks, report>>

NextExtract == ExtractMetadata

SpecExtract == InitExtract /\ [][NextExtract]_vars

\* C18 as claimed: extract_metadata returns a document with the content it
\* was given, and when a step of the extraction raised it returns the
\* document as it was given, no metadata entry added or changed.
C18_OriginalOnFailure ==
    last.op = "extract_metadata" =>
        /\ Get(last.returned, "content", <<>>) = Get(last.document, "content", <<>>)
        /\ last.fail_at # 0 => last.returned = last.document

(***************************************************************************)
(* SpecClean: clean_text as a function of the text and of the step that    *)
(* raises.  Init draws both, CleanText makes the call.                     *)
(***************************************************************************)

\* the longest text drawn
MaxCleanLen == 4

CleanAlphabet == {"a", " ", "&amp;", "<b>", "U+00E9"}

CleanTexts == UNION {[1..n -> CleanAlphabet] : n \in 0..MaxCleanLen}

\* the step of clean_text that raises (0: none)
CleanFailures == 0..7

InitClean ==
    /\ chunker = SmallChunker
    /\ index_ok = TRUE
    /\ index = EmptyIndex
    /\ \E text \in CleanTexts, fail_at \in CleanFailures :
           last = [op |-> "input", text |-> text, fail_at |-> fail_at]
    /\ tasks = IdleTasks
    /\ report = NoReport

\* the state after clean_text ended as `end`
CleanTextDone(end) ==
    /\ last' = [op |-> "clean_text", text |-> last.text, fail_at |-> last.fail_at,
                returned |-> end.value, raised |-> end.raised]
    /\ UNCHANGED <<chunker, index_ok, index, tasks, report>>

CleanText ==
    /\ last.op = "input"
    /\ CleanTextDone(clean_text_ends(last.text, last.fail_at))

NextClean == CleanText

SpecClean == InitClean /\ [][NextClean]_vars

\* C19 as claimed: clean_text does not raise, and when one of its steps
\* failed it returns the text it was given, whichever step that was.
C19_OriginalOnFailure ==
    last.op = "clean_text" =>
        /\ ~last.raised
        /\ last.fail_at # 0 => last.returned = last.text

\* C24: when clean_text succeeds, its output holds no two consecutive
\* whitespace characters and neither starts nor ends with whitespace, also
\* for inputs with non-ASCII characters between spaces.
C24_WhitespaceCollapsed ==
    (last.op = "clean_text" /\ last.fail_at = 0) =>
        LET out == last.returned
        IN  /\ \A n \in 1..(Len(out) - 1) :
                   ~(out[n] \in Whitespace /\ out[n + 1] \in Whitespace)
            /\ out # <<>> => (out[1] \notin Whitespace /\ out[Len(out)] \notin Whitespace)

(***************************************************************************)
(* SpecFormat: format_retrieved_documents as a function of the retrieved   *)
(* documents.  Init draws them, FormatRetrievedDocuments makes the call.   *)
(***************************************************************************)

\* the longest document list drawn
MaxFormatDocs == 2

\* a retrieved document with the given metadata
Retrieved(content, metadata) ==
    [id |-> "AAPL_doc_0", content |-> content, score |-> 1, metadata |-> metadata]

\* the documents drawn: filings with and without type and date, news,
\* financial data, another content type, no content type, no metadata
FormatDocs ==
    {Retrieved(TextAB, [content_type |-> "sec_filing", filing_type |-> "10-K",
                        filing_date |-> "2023-10-30", source |-> "s1"]),
     Retrieved(TextCD, [content_type |-> "sec_filing", filing_type |-> "10-Q",
                        source |-> "s1"]),
     Retrieved(TextAB, [content_type |-> "sec_filing", filing_date |-> "2023-10-30"]),
     Retrieved(TextCD, [content_type |-> "sec_filing", filing_type |-> "",
                        filing_date |-> ""]),
     Retrieved(TextCD, [content_type |-> "news", filing_date |-> "2023-11-01"]),
     Retrieved(TextAB, [content_type |-> "news", filing_type |-> "8-K"]),
     Retrieved(TextAB, [content_type |-> "financial_data", filing_date |-> "2024-01-01"]),
     Retrieved(TextCD, [content_type |-> "financial_data"]),
     Retrieved(TextLong, [content_type |-> "document", filing_type |-> "10-K",
                          filing_date |-> "2023-10-30"]),
     Retrieved(TextAB, [source |-> "s2"]),
     [id |-> "AAPL_doc_1", content |-> TextCD, score |-> 1]}

FormatInputs == UNION {[1..n -> FormatDocs] : n \in 0..MaxFormatDocs}

InitFormat ==
    /\ chunker = SmallChunker
    /\ index_ok = TRUE
    /\ index = EmptyIndex
    /\ \E documents \in FormatInputs : last = [op |-> "input", documents |-> documents]
    /\ tasks = IdleTasks
    /\ report = NoReport

FormatRetrievedDocuments ==
    /\ last.op = "input"
    /\ last' = [op |-> "format_retrieved_documents", documents |-> last.documents,
                context |-> format_retrieved_documents(last.documents)]
    /\ UNCHANGED <<chunker, index_ok, index, tasks, report>>

NextFormat == FormatRetrievedDocuments

SpecFormat == InitFormat /\ [][NextFormat]_vars

\* the label the claim gives the document at 1-based position n
LabelAsClaimed(doc, n) ==
    LET metadata == Get(doc, "metadata", NoFilter)
        content_type == Get(metadata, "content_type", "")
        date == Get(metadata, "filing_date", "")
        dated == IF date # "" THEN <<" (", date, ")">> ELSE <<>>
    IN  IF content_type = "sec_filing" /\ Get(metadata, "filing_type", "") # ""
        THEN <<metadata["filing_type"], " Filing">> \o dated
        ELSE IF content_type = "news" THEN <<"News Article">> \o dated
        ELSE IF content_type = "financial_data" THEN <<"Financial Data">> \o dated
        ELSE <<"Document ", ToString(n)>>

RECURSIVE BlocksAsClaimed(_, _)
\* the blocks of the documents from position n on, a newline between blocks
BlocksAsClaimed(documents, n) ==
    IF n > Len(documents) THEN <<>>
    ELSE <<"[">> \o LabelAsClaimed(documents[n], n) \o <<"]", "\n">>
         \o documents[n].content \o <<"\n">>
         \o (IF n < Len(documents) THEN <<"\n">> ELSE <<>>)
         \o BlocksAsClaimed(documents, n + 1)

\* C20: for a list of retrieved documents that is not empty, the context
\* is made of one block per document, in retrieval order; a block is the
\* label in brackets, a newline, the content of the document and a
\* newline; the label is "{filing_type} Filing" for a sec_filing with a
\* filing type, "News Article" for news, "Financial Data" for
\* financial_data, each followed by " ({date})" when there is a filing
\* date, and "Document N", N the 1-based position, otherwise.
C20_ContextBlocks ==
    (last.op = "format_retrieved_documents" /\ last.documents # <<>>) =>
        last.context = BlocksAsClaimed(last.documents, 1)

\* a dated filing followed by a document that has no label of its own
C20_Witness ==
    /\ last.op = "format_retrieved_documents"
    /\ Len(last.documents) = 2
    /\ SubSeq(last.context, 1, 6) = <<"[", "10-K", " Filing", " (", "2023-10-30", ")">>
    /\ \E n \in 1..(Len(last.context) - 2) :
           SubSeq(last.context, n, n + 2) = <<"[", "Document ", "2">>

(***************************************************************************)
(* SpecReport: a research report generated over an index filled by         *)
(* ingest_document.  generate_research_report runs as a background task;   *)
(* each of its process_query calls and its final update is one step.       *)
(***************************************************************************)

\* the documents the report's index is filled from, in ingestion order: a
\* filing, a news item that cites the same source, and financial data from
\* another source
ReportDocs ==
    << [ticker |-> "AAPL", content_type |-> "sec_filing", source |-> "aapl-10k",
        content |-> TextCD, filing_type |-> "10-K", filing_date |-> "2023-01-01"],
       [ticker |-> "AAPL", content_type |-> "news", source |-> "aapl-10k",
        content |-> TextCD],
       [ticker |-> "AAPL", content_type |-> "financial_data", source |-> "yahoo",
        content |-> TextAB] >>

RECURSIVE SeedIndex(_)
\* the index after the first n of ReportDocs were ingested
SeedIndex(n) ==
    IF n = 0 THEN EmptyIndex
    ELSE ingest_document(SeedIndex(n - 1), TRUE, SmallChunker, ReportDocs[n],
                         TRUE, 0, TRUE).index

\* the reports asked for: the topic list (<<>>: the default topics) and the
\* time period (<<>>: none)
ReportRequests ==
    {[topics |-> <<>>, time_period |-> <<>>],
     [topics |-> <<TextAB>>, time_period |-> <<"2023">>],
     [topics |-> <<TextAB, TextCD>>, time_period |-> <<>>]}

\* the texts the language model may expand a report query to
ReportExpansions == {<<>>, <<TextAB>>, <<TextCD>>}

InitReport ==
    /\ chunker = SmallChunker
    /\ index_ok = TRUE
    /\ \E n \in 0..Len(ReportDocs) : index = SeedIndex(n)
    /\ last = [op |-> "init"]
    /\ tasks = IdleTasks
    /\ report = NoReport

\* a call of start_company_research; no report exists when the store fails
StartCompanyResearch ==
    \E request \in ReportRequests, db_ok \in BOOLEAN :
        /\ report.pc = 0
        /\ report' = IF db_ok
                     THEN [requested |-> request.topics] @@
                          start_company_research("AAPL", request.topics, request.time_period)
                     ELSE NoReport
        /\ last' = [op |-> "start_company_research", stored |-> db_ok]
        /\ UNCHANGED <<chunker, index_ok, index, tasks>>

\* the responses process_query may give to a query of the report
ReportResponses(text, expansion, env) ==
    process_query(index, index_ok, text, report.ticker, <<>>, TRUE, env.db_ok,
                  expansion, env.provider_ok, env.backend_ok, env.llm_ok)

\* generate_research_report: the section of the next topic
GenerateSection ==
    /\ report.status = "processing"
    /\ report.pc \in 1..Len(report.topics)
    /\ \E expansion \in ReportExpansions, env \in Faults :
           \E response \in ReportResponses(
                   topic_query(report.ticker, report.topics[report.pc], report.time_period),
                   expansion, env) :
               /\ report' = report_section(report, response)
               /\ last' = [op |-> "report_section"]
    /\ UNCHANGED <<chunker, index_ok, index, tasks>>

\* generate_research_report: the executive summary
GenerateSummary ==
    /\ report.status = "processing"
    /\ report.pc = Len(report.topics) + 1
    /\ \E expansion \in ReportExpansions, env \in Faults :
           \E response \in ReportResponses(
                   summary_query(report.ticker, report.time_period), expansion, env) :
               /\ report' = report_summary(report, response)
               /\ last' = [op |-> "report_summary"]
    /\ UNCHANGED <<chunker, index_ok, index, tasks>>

\* the state after generate_research_report ended with the given outcome
GenerateDone(outcome) ==
    /\ report' = report_update(report, outcome)
    /\ last' = [op |-> "report_update", outcome |-> outcome] @@
                generate_research_report_end(outcome)
    /\ UNCHANGED <<chunker, index_ok, index, tasks>>

\* generate_research_report: reading the stored report fails, the handler
\* makes the error update
LoadFails ==
    /\ report.status = "processing"
    /\ report.pc = 1
    /\ \E outcome \in {"error", "raised"} : GenerateDone(outcome)

\* generate_research_report: duplicate removal and the final update
CompleteReport ==
    /\ report.status = "processing"
    /\ report.pc = Len(report.topics) + 2
    /\ \E outcome \in {"completed", "error", "raised"} : GenerateDone(outcome)

NextReport ==
    \/ StartCompanyResearch
    \/ LoadFails
    \/ GenerateSection
    \/ GenerateSummary
    \/ CompleteReport

SpecReport == InitReport /\ [][NextReport]_vars

\* generate_research_report runs as a background task that is scheduled
\* when the report is created and runs to its end: none of its steps is
\* postponed for ever
ReportFairness ==
    /\ WF_vars(LoadFails \/ GenerateSection)
    /\ WF_vars(GenerateSummary)
    /\ WF_vars(CompleteReport)

\* the report's life over an index that holds nothing or one filing
InitLive == InitReport /\ Cardinality(DOMAIN index) <= 1

SpecReportLive == InitLive /\ [][NextReport]_vars /\ ReportFairness

\* the citations gathered for a report: those of its sections in section
\* order, then those of the summary
Gathered(rep) ==
    Concat([i \in 1..Len(rep.sections) |-> rep.sections[i].sources])
        \o rep.summary_sources

\* the positions of a citation list that hold the first citation of a source
FirstPositions(all) ==
    {j \in 1..Len(all) : \A k \in 1..(j - 1) : all[k]["source"] # all[j]["source"]}

\* C5: the sources of a completed report hold no source value twice, and
\* they are the first citations of each source value among the citations of
\* the sections in section order followed by those of the summary, in that
\* order.
C5_ReportSourcesUnique ==
    report.status = "completed" =>
        LET all == Gathered(report)
            sources == report.sources
        IN  /\ \A i, j \in 1..Len(sources) :
                   i # j => sources[i]["source"] # sources[j]["source"]
            /\ Len(sources) = Cardinality(FirstPositions(all))
            /\ \A i \in 1..Len(sources) :
                   \E j \in FirstPositions(all) :
                       /\ sources[i] = all[j]
                       /\ Cardinality({k \in FirstPositions(all) : k < j}) = i - 1

\* a completed report of two sections that gathered more than three
\* citations of two sources, one of the dropped citations differing from
\* the citation kept for its source
C5_Witness ==
    /\ report.status = "completed"
    /\ Len(report.sections) = 2
    /\ Len(Gathered(report)) > 3
    /\ Len(report.sources) = 2
    /\ \E j \in 1..Len(Gathered(report)) :
           /\ Gathered(report)[j]["source"] = report.sources[1]["source"]
           /\ Gathered(report)[j] # report.sources[1]

\* C21: a completed report has one section per topic of its topic list, in
\* topic-list order; the i-th section is titled with the i-th topic and
\* carries the answer and the sources process_query returned for that
\* topic's query; the topic list is the request's, or the four default
\* topics when the request gave none.
C21_SectionPerTopic ==
    report.status = "completed" =>
        /\ report.topics = IF report.requested = <<>> THEN DEFAULT_TOPICS
                           ELSE report.requested
        /\ Len(DEFAULT_TOPICS) = 4
        /\ Len(report.sections) = Len(report.topics)
        /\ \A i \in 1..Len(report.topics) :
               /\ report.sections[i].title = report.topics[i]
               /\ report.asked[i].query =
                      topic_query(report.ticker, report.topics[i], report.time_period)
               /\ report.sections[i].content = report.asked[i].answer
               /\ report.sections[i].sources = report.asked[i].sources

\* a completed report of the default topics and one of two given topics,
\* a topic's query having failed and another having found sources
C21_Witness ==
    /\ report.status = "completed"
    /\ report.requested \in {<<>>, <<TextAB, TextCD>>}
    /\ \E i, j \in 1..Len(report.sections) :
           /\ ~report.asked[i].answered
           /\ report.sections[j].sources # <<>>

(***************************************************************************)
(* SpecIngest: two ingestions running as background tasks of one service.  *)
(* An ingest_company_data run is suspended between its content type blocks *)
(* (every connector and metadata store call is awaited); the upsert of a   *)
(* block has no suspension point.  An ingest_document call makes one       *)
(* upsert and is one step.                                                 *)
(***************************************************************************)
TaskIds == {"t1", "t2"}

\* the documents the connectors build (sec_edgar.get_filings_data,
\* market_data.get_company_news, market_data.format_financial_data_for_embedding)
Filing(ticker, filing_type, filing_date, source, text) ==
    [ticker |-> ticker, filing_type |-> filing_type, filing_date |-> filing_date,
     content |-> text, source |-> source, content_type |-> "sec_filing"]

NewsArticle(ticker, headline, source, text) ==
    [ticker |-> ticker, headline |-> headline, summary |-> text, url |-> "",
     datetime |-> "1970-01-01 00:00:00", source |-> source, content |-> text,
     content_type |-> "news"]

FinancialDoc(ticker, source, text) ==
    [ticker |-> ticker, content |-> text, content_type |-> "financial_data",
     source |-> source, filing_date |-> "2024-01-01"]

\* what the connectors may return for the ticker at the time of a call
Fetches(block) ==
    IF block = "sec_filing"
    THEN {<<>>,
          <<Filing("AAPL", "10-K", "2023-01-01", "aapl-10k", TextLong),
            Filing("AAPL", "10-Q", "2023-04-01", "aapl-10q", TextCD)>>,
          <<Filing("AAPL", "10-K", "2024-01-01", "aapl-10k-2024", TextAB)>>}
    ELSE IF block = "news"
    THEN {<<NewsArticle("AAPL", "h1", "wire", TextAB)>>,
          <<NewsArticle("AAPL", "h2", "wire", <<>>),
            NewsArticle("AAPL", "h3", "press", TextCD)>>}
    ELSE {<<FinancialDoc("AAPL", "yfinance_income_statement", TextAB),
            FinancialDoc("AAPL", "yfinance_balance_sheet", TextCD)>>}

\* the documents handed to ingest_document while ingestions run
UploadDocs ==
    {[ticker |-> "AAPL", content_type |-> "sec_filing", source |-> "upload.txt",
      content |-> TextLong]}

\* what the collaborators do during one ingestion: the embedding provider
\* and the index backend answer or fail throughout; the metadata store (db)
\* is "ok", "down" (every call fails), "blip" (the first document metadata
\* store fails, later calls succeed) or "lost" (it fails from the first
\* document metadata store on).  An ingestion meets at most one of them
\* failing.  fail_block names the one content type block during whose
\* upsert the backend fails while it answers during the others ("none": it
\* does not).
IngestOk == [provider_ok |-> TRUE, backend_ok |-> TRUE, db |-> "ok", fail_block |-> "none"]

IngestEnvs ==
    {IngestOk, [IngestOk EXCEPT !.provider_ok = FALSE],
     [IngestOk EXCEPT !.backend_ok = FALSE]}
    \cup {[IngestOk EXCEPT !.db = d] : d \in {"down", "blip", "lost"}}
    \cup {[IngestOk EXCEPT !.fail_block = b] : b \in {"sec_filing", "news", "financial_data"}}

\* the include_news / include_financials arguments of an ingestion
IngestRequests ==
    {[include_news |-> TRUE, include_financials |-> TRUE],
     [include_news |-> FALSE, include_financials |-> FALSE]}

\* a task that has not started.  document_count, status and result are
\* those of ingest_company_data (result: what the call returned, for
\* ingest_document "True"/"False"); sent lists the vector lists its upserts
\* wrote to the backend, each with the position of the upsert among all
\* upserts made; backend_calls counts its backend upsert calls; raised tells
\* that the call ended with an exception; groups records, for every content
\* type block run so far, its number of chunks and what its upsert returned.
IdleTask ==
    [kind |-> "none", pc |-> "idle", env |-> IngestOk,
     include_news |-> FALSE, include_financials |-> FALSE,
     document_count |-> 0, status |-> "none", result |-> "none",
     sent |-> <<>>, backend_calls |-> 0, raised |-> FALSE, groups |-> <<>>]

InitIngest ==
    /\ chunker = SmallChunker
    /\ index_ok \in BOOLEAN
    /\ index = EmptyIndex
    /\ last = [op |-> "init"]
    /\ tasks = [t \in TaskIds |-> IdleTask]
    /\ report = NoReport

RECURSIVE SumLen(_, _)
SumLen(f, keys) ==
    IF keys = {} THEN 0
    ELSE LET k == CHOOSE x \in keys : TRUE
         IN  Len(f[k].sent) + SumLen(f, keys \ {k})

\* the position the next upsert takes among all upserts made
NextStamp == SumLen(tasks, TaskIds) + 1

\* the sent list after an upsert that wrote the vectors `written`
Sent(task, written) ==
    IF written = <<>> THEN task.sent
    ELSE Append(task.sent, [stamp |-> NextStamp, vectors |-> written])

\* ingest_company_data up to its first suspension after the ingestion
\* record is stored; when the store fails the call returns ""
StartIngestion(t) ==
    \E env \in IngestEnvs, request \in IngestRequests :
        /\ tasks[t].pc = "idle"
        /\ tasks' = [tasks EXCEPT ![t] =
               IF env.db = "down"
               THEN [@ EXCEPT !.kind = "company", !.env = env,
                              !.include_news = request.include_news,
                              !.include_financials = request.include_financials,
                              !.pc = "done", !.result = ""]
               ELSE [@ EXCEPT !.kind = "company", !.env = env,
                              !.include_news = request.include_news,
                              !.include_financials = request.include_financials,
                              !.pc = NextBlock("start", request.include_news,
                                               request.include_financials),
                              !.status = "in_progress"]]
        /\ last' = [op |-> "start_ingestion", task |-> t]
        /\ UNCHANGED <<chunker, index_ok, index, report>>

\* the state after the block task.pc of task t fetched `fetched` and its
\* processing gave `out`: the metadata store of every fetched document
\* follows; a failing store takes the call to its exception handler, whose
\* status update succeeds ("blip") or raises in turn ("lost")
IngestGroupDone(t, task, fetched, out) ==
    LET counted == [task EXCEPT !.document_count = @ + out.indexed,
                                !.sent = Sent(task, out.written),
                                !.backend_calls = @ + out.backend_calls,
                                !.groups = Append(@, [block |-> task.pc,
                                                      chunks |-> Len(out.chunks),
                                                      upsert_called |-> out.upsert_called,
                                                      upsert_ok |-> out.upsert_ok])]
        stores_fail == fetched # <<>> /\ task.env.db # "ok"
    IN  /\ index' = out.index
        /\ tasks' = [tasks EXCEPT ![t] =
               IF ~stores_fail
               THEN [counted EXCEPT !.pc = NextBlock(task.pc, task.include_news,
                                                     task.include_financials)]
               ELSE IF task.env.db = "blip"
               THEN [counted EXCEPT !.pc = "done", !.status = "error", !.result = ""]
               ELSE [counted EXCEPT !.pc = "done", !.raised = TRUE]]
        /\ last' = [op |-> "ingest_group", task |-> t, block |-> task.pc,
                    provider_ok |-> task.env.provider_ok,
                    chunks |-> out.chunks,
                    embeddings |-> out.embeddings,
                    vectors |-> out.vectors,
                    upsert_called |-> out.upsert_called,
                    upsert_ok |-> out.upsert_ok]
        /\ UNCHANGED <<chunker, index_ok, report>>

\* the backend answers the upsert of the block
BackendAnswers(env, block) == env.backend_ok /\ env.fail_block # block

\* one content type block of ingest_company_data: fetch, extract, chunk,
\* embed, upsert, then the metadata stores
IngestGroup(t) ==
    /\ tasks[t].pc \in {"sec_filing", "news", "financial_data"}
    /\ \E fetched \in Fetches(tasks[t].pc) :
           IngestGroupDone(t, tasks[t], fetched,
                           ingest_group(index, index_ok, chunker, fetched,
                                        tasks[t].env.provider_ok,
                                        IF BackendAnswers(tasks[t].env, tasks[t].pc)
                                        THEN 0 ELSE 1))

\* the end of ingest_company_data: the company record and the final status
FinishIngestion(t) ==
    /\ tasks[t].pc = "finish"
    /\ tasks' = [tasks EXCEPT ![t] =
           [@ EXCEPT !.pc = "done", !.status = "completed", !.result = "ingestion_id"]]
    /\ last' = [op |-> "finish_ingestion", task |-> t]
    /\ UNCHANGED <<chunker, index_ok, index, report>>

\* the state after task t called ingest_document and got `out`
RunIngestDocumentDone(t, env, out) ==
    /\ index' = out.index
    /\ tasks' = [tasks EXCEPT ![t] =
           [@ EXCEPT !.kind = "document", !.env = env, !.pc = "done",
                     !.document_count = IF out.result THEN Len(out.vectors) ELSE 0,
                     !.result = IF out.result THEN "True" ELSE "False",
                     !.sent = Sent(tasks[t], IF out.upsert_ok THEN out.vectors ELSE <<>>),
                     !.backend_calls = out.backend_calls]]
    /\ last' = [op |-> "ingest_document", task |-> t,
                provider_ok |-> env.provider_ok,
                chunks |-> out.chunks,
                embeddings |-> out.embeddings,
                vectors |-> out.vectors,
                upsert_called |-> out.upsert_called,
                upsert_ok |-> out.upsert_ok]
    /\ UNCHANGED <<chunker, index_ok, report>>

\* a call of ingest_document made while ingestions run
RunIngestDocument(t) ==
    \E document \in UploadDocs, env \in IngestEnvs :
        /\ tasks[t].pc = "idle"
        /\ RunIngestDocumentDone(t, env,
               ingest_document(index, index_ok, chunker, document, env.provider_ok,
                               IF env.backend_ok THEN 0 ELSE 1, env.db = "ok"))

NextIngest ==
    \E t \in TaskIds :
        \/ StartIngestion(t)
        \/ IngestGroup(t)
        \/ FinishIngestion(t)
        \/ RunIngestDocument(t)

SpecIngest == InitIngest /\ [][NextIngest]_vars

(***************************************************************************)
(* Properties of the ingestions (SpecIngest).                              *)
(***************************************************************************)

\* C2 as claimed: after a block of ingest_company_data upserted its chunks
\* successfully, every chunk of the block has a record of its own: the index
\* holds, under the id of each chunk, the vector made of that chunk.
C2_EveryChunkOwnRecord ==
    (last.op = "ingest_group" /\ last.upsert_ok) =>
        \A n \in 1..Len(last.vectors) : index[last.vectors[n].id] = last.vectors[n]

\* C9: an ingestion that runs while the embedding provider is unavailable
\* gets no embeddings, makes no upsert and no backend call, counts zero
\* documents and does not raise; ingest_document returns False,
\* ingest_company_data completes with its ingestion id.
C9_ProviderUnavailable ==
    /\ \A t \in TaskIds :
           (tasks[t].kind # "none" /\ ~tasks[t].env.provider_ok) =>
               /\ tasks[t].document_count = 0
               /\ tasks[t].backend_calls = 0
               /\ tasks[t].sent = <<>>
               /\ ~tasks[t].raised
               /\ (tasks[t].kind = "document") => (tasks[t].result = "False")
               /\ (tasks[t].kind = "company" /\ tasks[t].pc = "done") =>
                      (tasks[t].status = "completed" /\ tasks[t].result = "ingestion_id")
    /\ (last.op \in {"ingest_group", "ingest_document"} /\ ~last.provider_ok) =>
           (last.embeddings = <<>> /\ ~last.upsert_called)

\* an ingest_company_data run with news and financial data and an
\* ingest_document call have both ended with the provider unavailable, the
\* latest step having had chunks to embed
C9_Witness ==
    /\ \E t \in TaskIds :
           /\ tasks[t].kind = "company"
           /\ tasks[t].pc = "done"
           /\ ~tasks[t].env.provider_ok
           /\ tasks[t].include_financials
    /\ \E t \in TaskIds :
           /\ tasks[t].kind = "document"
           /\ ~tasks[t].env.provider_ok
    /\ last.op = "ingest_document"
    /\ ~last.provider_ok
    /\ last.chunks # <<>>

\* every vector written to the backend so far, with the position of its
\* upsert among all upserts and its position in the upsert
Writes ==
    UNION {UNION {{[stamp |-> tasks[t].sent[n].stamp, pos |-> k,
                    vector |-> tasks[t].sent[n].vectors[k]] :
                   k \in 1..Len(tasks[t].sent[n].vectors)} :
                  n \in 1..Len(tasks[t].sent)} :
           t \in TaskIds}

\* the write that came last among the writes of a record id
LatestWrite(id) ==
    CHOOSE w \in Writes :
        /\ w.vector.id = id
        /\ \A o \in Writes :
               o.vector.id = id =>
                   \/ o.stamp < w.stamp
                   \/ o.stamp = w.stamp /\ o.pos <= w.pos

RECURSIVE ApplySent(_, _)
\* the index after the upserts of a sent list, in order
ApplySent(idx, sent) ==
    IF sent = <<>> THEN idx
    ELSE ApplySent(BackendUpsert(idx, Head(sent).vectors), Tail(sent))

\* the index after ingestion a ran to its end and then ingestion b
SerialIndex(a, b) ==
    ApplySent(ApplySent(EmptyIndex, tasks[a].sent), tasks[b].sent)

\* both tasks were ingest_company_data runs and have completed
BothCompleted ==
    \A t \in TaskIds : tasks[t].kind = "company" /\ tasks[t].status = "completed"

\* C10 as claimed: after two concurrent ingestions of the ticker completed,
\* the index equals the one that running them one after the other, in one
\* of the two orders, produces.
C10_Serializable ==
    BothCompleted => index \in {SerialIndex("t1", "t2"), SerialIndex("t2", "t1")}

\* C10 as the code has it: whatever the interleaving of the upserts, the
\* index holds exactly the record ids that were written and, under each id,
\* the vector of the last write of that id.
C10_LastWriterWins ==
    /\ DOMAIN index = {w.vector.id : w \in Writes}
    /\ \A id \in DOMAIN index : index[id] = LatestWrite(id).vector

\* two ingestions that met no failure completed, with upserts that
\* interleaved, and left an index that neither serial order produces
C10_Witness ==
    /\ BothCompleted
    /\ \A t \in TaskIds : tasks[t].env = IngestOk /\ Len(tasks[t].sent) > 1
    /\ index \notin {SerialIndex("t1", "t2"), SerialIndex("t2", "t1")}

RECURSIVE SucceededChunks(_)
\* the chunks of the groups whose upsert returned success
SucceededChunks(groups) ==
    IF groups = <<>> THEN 0
    ELSE (IF Head(groups).upsert_ok THEN Head(groups).chunks ELSE 0)
         + SucceededChunks(Tail(groups))

\* an upsert of the run was made and returned failure
SomeUpsertFailed(task) ==
    \E n \in 1..Len(task.groups) :
        task.groups[n].upsert_called /\ ~task.groups[n].upsert_ok

\* C11: an ingest_company_data run one of whose upserts failed, and whose
\* metadata store answers, goes on with the next block, ends with status
\* "completed" and its ingestion id, and at every point counts exactly the
\* chunks of the groups whose upsert returned success; the failed group adds
\* nothing.
C11_PartialFailureCounted ==
    \A t \in TaskIds :
        (/\ tasks[t].kind = "company"
         /\ SomeUpsertFailed(tasks[t])
         /\ tasks[t].env.db = "ok") =>
            /\ tasks[t].document_count = SucceededChunks(tasks[t].groups)
            /\ ~tasks[t].raised
            /\ tasks[t].status \in {"in_progress", "completed"}
            /\ tasks[t].pc = "done" =>
                   (tasks[t].status = "completed" /\ tasks[t].result = "ingestion_id")
            /\ tasks[t].pc # "done" =>
                   tasks[t].pc = NextBlock(tasks[t].groups[Len(tasks[t].groups)].block,
                                           tasks[t].include_news,
                                           tasks[t].include_financials)

\* a run with news and financial data ended whose news upsert failed on
\* chunks it had to write while the two other groups were counted
C11_Witness ==
    \E t \in TaskIds :
        /\ tasks[t].kind = "company"
        /\ tasks[t].pc = "done"
        /\ tasks[t].status = "completed"
        /\ Len(tasks[t].groups) = 3
        /\ tasks[t].groups[1].upsert_ok /\ tasks[t].groups[1].chunks > 0
        /\ tasks[t].groups[2].upsert_called /\ ~tasks[t].groups[2].upsert_ok
        /\ tasks[t].groups[2].chunks > 0
        /\ tasks[t].groups[3].upsert_ok
        /\ tasks[t].document_count
               = tasks[t].groups[1].chunks + tasks[t].groups[3].chunks

(***************************************************************************)
(* Properties of the atomic calls (Spec, SpecRetrieve).                    *)
(***************************************************************************)

Ids(vectors) == [n \in 1..Len(vectors) |-> vectors[n].id]

C1_Step ==
    (/\ UpsertedLast
     /\ last'.op = "ingest_document"
     /\ last'.upsert_ok
     /\ Triples(last'.chunks) = Triples(last.chunks))
    => (/\ Ids(last'.vectors) = Ids(last.vectors)
        /\ DOMAIN index' = DOMAIN index
        /\ \A n \in 1..Len(last'.vectors) :
               index'[last'.vectors[n].id] = last'.vectors[n])

\* C1: when a chunk list with the same (ticker, content_type, chunk_id)
\* triples as the list upserted just before is upserted, every chunk gets the
\* id it got the first time, the set of record ids in the index stays the
\* same and every such id holds the record of the second upsert.
C1_ReingestSameIds == [][C1_Step]_vars

\* a second upsert of a chunk list with the same triples has happened, with
\* content that differs from the first
C1_Witness ==
    /\ last.op = "ingest_document"
    /\ last.repeats
    /\ ~last.was_empty
    /\ last.document["source"] = "aapl-10q"

\* C4: retrieve_documents returns at most top_k documents (at most the
\* configured default when top_k is omitted), in non-increasing score order.
C4_AtMostTopKSorted ==
    last.op = "retrieve_documents" =>
        LET limit == IF last.top_k = <<>> THEN MAX_DOCUMENTS_RETRIEVED ELSE last.top_k[1]
            docs == last.documents
        IN  /\ Len(docs) <= limit
            /\ \A i, j \in 1..Len(docs) : i < j => docs[i].score >= docs[j].score

\* a retrieval cut to the requested two of at least three records, the two
\* having different scores
C4_Witness ==
    /\ last.op = "retrieve_documents"
    /\ last.top_k = <<2>>
    /\ Cardinality(DOMAIN index) > 2
    /\ Len(last.documents) = 2
    /\ last.documents[1].score > last.documents[2].score

\* C16: when the embedding of the query fails, because the provider fails
\* or the query has no text to embed, retrieve_documents returns no
\* document, makes no query to the vector store and does not raise.
C16_NoEmbeddingNoQuery ==
    (/\ last.op = "retrieve_documents"
     /\ get_embedding(last.query, last.provider_ok) = <<>>) =>
        /\ last.documents = <<>>
        /\ last.store_queries = 0
        /\ ~last.raised

\* the provider failed for a query whose text matches a record of the
\* index, which the index object could have answered
C16_Witness ==
    /\ last.op = "retrieve_documents"
    /\ ~last.provider_ok
    /\ last.query # <<>>
    /\ index_ok
    /\ \E id \in DOMAIN index : Score(Vec(last.query), index[id].values) > 0
    /\ last.documents = <<>>

\* C6 as claimed: the sources process_query returns hold no source value twice.
C6_QuerySourcesDeduplicated ==
    (last.op = "process_query") =>
        \A i, j \in 1..Len(last.result.sources) :
            i # j => last.result.sources[i]["source"] # last.result.sources[j]["source"]

\* C6 as the code has it: process_query returns the synthesizer's citations
\* unchanged, one per retrieved document and in retrieval order (none when
\* nothing was retrieved or the model call failed), so a source shared by
\* several retrieved chunks is listed once per chunk.
C6_QuerySourcesPerDocument ==
    (last.op = "process_query" /\ last.result.answered) =>
        LET docs == last.result.documents
            sources == last.result.sources
        IN  IF docs = <<>> \/ ~last.env.llm_ok THEN sources = <<>>
            ELSE /\ Len(sources) = Len(docs)
                 /\ \A i \in 1..Len(docs) :
                        /\ sources[i]["source"] = docs[i].metadata["source"]
                        /\ sources[i]["type"] = docs[i].metadata["content_type"]

\* two retrieved chunks of one source, both cited
C6_Witness ==
    /\ last.op = "process_query"
    /\ last.result.answered
    /\ Len(last.result.documents) = 2
    /\ Len(last.result.sources) = 2
    /\ last.result.sources[1]["source"] = last.result.sources[2]["source"]

\* the value stored in a record for a top-level field of its document: the
\* value of the same key of the document's nested metadata when it has one,
\* else the document's own value, else the default
StoredField(document, key, default) ==
    IF "metadata" \in DOMAIN document /\ key \in DOMAIN document["metadata"]
    THEN document["metadata"][key].val
    ELSE Get(document, key, default)

C7_OriginalStep ==
    (/\ SingleChunkIngested
     /\ last'.op = "process_query"
     /\ last'.env.provider_ok)
    => (/\ last'.result.answered
        /\ Len(last'.result.documents) = 1
        /\ last'.result.documents[1].id = last.vectors[1].id
        /\ Len(last'.result.sources) = 1
        /\ last'.result.sources[1]["source"] = Get(last.document, "source", ""))

ScopeCovers(ticker, content_types, document) ==
    \/ ticker = None
    \/ /\ ticker = StoredField(document, "ticker", "")
       /\ \/ content_types = <<>>
          \/ StoredField(document, "content_type", "document") \in Range(content_types)

C7_AmendedStep ==
    (/\ SingleChunkIngested
     /\ last'.op = "process_query"
     /\ last'.env = AllOk
     /\ ScopeCovers(last'.ticker, last'.content_types, last.document))
    => (/\ last'.result.answered
        /\ Len(last'.result.documents) = 1
        /\ last'.result.documents[1].id = last.vectors[1].id
        /\ Len(last'.result.sources) = 1
        /\ last'.result.sources[1]["source"] = StoredField(last.document, "source", ""))

C8_NothingRetrieved ==
    (last.op = "process_query" /\ last.result.answered /\ last.result.documents = <<>>) =>
        /\ last.result.answer = NOT_FOUND_ANSWER
        /\ last.result.sources = <<>>
        /\ last.result.llm_calls = 0

\* a query that matched nothing although the index holds records and every
\* collaborator answered
C8_Witness ==
    /\ last.op = "process_query"
    /\ last.env = AllOk
    /\ last.result.documents = <<>>
    /\ index # EmptyIndex
    /\ last.result.answer = NOT_FOUND_ANSWER

\* C17: when the model call of expand_financial_query fails, a
\* process_query call that asked for the expansion and logged its query
\* does not fail: it reports the original query as the expanded one and
\* returns what answer_question gives for the original query.
C17_FailedExpansionKeepsQuery ==
    (/\ last.op = "process_query"
     /\ last.env.db_ok
     /\ last.expand_query
     /\ last.expansion = <<>>) =>
        /\ expand_financial_query(last.query, last.expansion) = last.query
        /\ last.result.answered
        /\ last.result.query_used = last.query
        /\ last.result.expanded_query = <<last.query>>
        /\ \E response \in answer_question(index, index_ok, last.query, last.ticker,
                                            last.content_types, last.env.provider_ok,
                                            last.env.backend_ok, last.env.llm_ok) :
               /\ response.answer = last.result.answer
               /\ response.sources = last.result.sources
               /\ response.documents = last.result.documents

\* the expansion failed and the original query retrieved a document from
\* which the answer was written
C17_Witness ==
    /\ last.op = "process_query"
    /\ last.env = AllOk
    /\ last.expand_query
    /\ last.expansion = <<>>
    /\ last.result.documents # <<>>
    /\ last.result.sources # <<>>
    /\ last.result.query_used = last.query

\* the structured value a serialized metadata value was made from
Unserialized(stored) == [kind |-> stored.json, val |-> stored.body]

\* C22: a nested metadata value that is a mapping or a list is stored as a
\* string by upsert_documents and comes back from a query decoded to the
\* structured value it was serialized from: for every document retrieved
\* and every structured key of its record, the record holds the serialized
\* string and the document holds the value that string was made from.
C22_NestedRoundTrip ==
    last.op = "retrieve_documents" =>
        \A n \in 1..Len(last.documents) :
            LET doc == last.documents[n]
                record == index[doc.id]
            IN  \A k \in StructuredKeys \cap DOMAIN record.metadata :
                    /\ record.metadata[k].json \in {"dict", "list"}
                    /\ doc.metadata[k] = Unserialized(record.metadata[k])

\* C23: a TextChunker built with a value for chunk_size or chunk_overlap,
\* a chunk_overlap of 0 included, chunks a document with exactly that value
\* and not the configured default.
C23_ArgumentsUsed ==
    last.op = "chunk_document" =>
        /\ last.chunk_size # <<>> => chunker.chunk_size = last.chunk_size[1]
        /\ last.chunk_overlap # <<>> => chunker.chunk_overlap = last.chunk_overlap[1]

\* C25: a process_query call that was given content types returns only
\* sources of those content types, whether or not it was given a ticker.
C25_ContentTypesRestrict ==
    (last.op = "process_query" /\ last.content_types # <<>>) =>
        \A n \in 1..Len(last.result.sources) :
            last.result.sources[n]["type"] \in Range(last.content_types)

\* the value upsert_documents takes for a scoping field of a chunk: the
\* chunk's top-level field, or the default of the field when the chunk has
\* none (i: the 0-based position of the chunk)
TopLevel(doc, field, i) ==
    Get(doc, field,
        IF field = "content_type" THEN "document"
        ELSE IF field = "chunk_id" THEN i
        ELSE IF field = "chunk_count" THEN 1
        ELSE "")

\* C28: in every record written by upsert_documents the metadata fields
\* ticker, content_type, source, chunk_id and chunk_count are the chunk's
\* own top-level fields, whatever keys the chunk's nested metadata holds.
C28_ScopeFromTopLevel ==
    (last.op = "ingest_document" /\ last.upsert_ok) =>
        \A n \in 1..Len(last.vectors) :
            \A field \in {"ticker", "content_type", "source", "chunk_id", "chunk_count"} :
                index[last.vectors[n].id].metadata[field]
                    = TopLevel(last.chunks[n], field, n - 1)

\* the two documents are versions of one document: same ticker, content
\* type and source
SameDocument(d, e) ==
    \A field \in {"ticker", "content_type", "source"} :
        Get(d, field, None) = Get(e, field, None)

C29_Step ==
    (/\ UpsertedLast
     /\ last'.op = "ingest_document"
     /\ last'.upsert_ok
     /\ SameDocument(last.document, last'.document)
     /\ Len(last'.chunks) < Len(last.chunks))
    => \A id \in DOMAIN index' :
           (/\ index'[id].metadata["ticker"] = Get(last'.document, "ticker", "")
            /\ index'[id].metadata["content_type"]
                   = Get(last'.document, "content_type", "document"))
           => index'[id] \in Range(last'.vectors)

\* C29: after a document was ingested again under the same ticker and
\* content type with fewer chunks than the version ingested just before,
\* every record of that ticker and content type is a record of the latest
\* ingestion.
C29_NoStaleRecords == [][C29_Step]_vars

\* generate_research_report is running for the stored report
Generating == report.status = "processing" /\ report.pc > 0

\* the state generate_research_report leaves: completed and True when the
\* final update was stored, error and False when the error update was
\* stored, still processing when the call raised
EndedAsStored ==
    last.op = "report_update" =>
        /\ last.returned => report.status = "completed"
        /\ report.status = IF last.outcome = "raised" THEN "processing" ELSE last.outcome
        /\ last.raised <=> last.outcome = "raised"

\* a step that leaves a report in status processing either creates the
\* report or is a step of generate_research_report on a report that was
\* processing before
ProcessingOnlyFromStart ==
    report'.status = "processing" =>
        \/ last'.op = "start_company_research" /\ last'.stored
        \/ report.status = "processing"

\* C30 as claimed, for the end of a run: when generate_research_report has
\* ended, the stored status is completed or error.  (No later step writes
\* the status of that report, so a run that ends in another status never
\* reaches one of the two.)
C30_EndsCompletedOrError ==
    last.op = "report_update" => report.status \in {"completed", "error"}

\* C30 as the code has it: a report is created with status processing;
\* generate_research_report, once running, comes to its end; it leaves
\* completed and returns True when the final update was stored, leaves
\* error and returns False when only the error update was stored, and
\* raises, leaving processing, when the store rejected both; no step of it
\* writes processing, and it returns True only with status completed.
C30_Lifecycle ==
    /\ []EndedAsStored
    /\ [][ProcessingOnlyFromStart]_vars
    /\ [][(last'.op = "start_company_research" /\ last'.stored)
             => report'.status = "processing"]_vars
    /\ Generating ~> (last.op = "report_update" /\ report.pc = 0)

\* a run of generate_research_report that wrote sections ended with the
\* error update stored
C30_Witness ==
    /\ last.op = "report_update"
    /\ report.status = "error"
    /\ ~last.returned
    /\ report.local_sections # <<>>

====
